---------------------------- MODULE Spec2Model ----------------------------
(***************************************************************************)
(* The constraint graph of lib/Sema/ConstraintGraph.cpp: the registry of   *)
(* nodes, the per-node constraint and adjacency bookkeeping, equivalence   *)
(* classes, the change log with its scopes, and connected components.      *)
(*                                                                         *)
(* The constraint system (the oracle answering getRepresentative and       *)
(* getFixedType, and the owner of the constraints) is the environment.     *)
(* Assertions are enabled: a failed assert stops the program, which the    *)
(* model records in cg.err, after which no operation runs.                 *)
(* Vector positions are 0-based as in the source; a TLA+ sequence holds    *)
(* position i at index i + 1.                                              *)
(***************************************************************************)
EXTENDS Integers, Sequences, FiniteSets, TLC

\* ------------------------------------------------------------------ bounds

\* The number of operations in a behaviour.
MaxSteps == 4

\* The type variables a, b, c.
TypeVars == {1, 2, 3}

\* The identities of the scope objects.
ScopeIds == 1..MaxSteps
NoScope == 0
NoErr == "none"

\* ------------------------------------------------------- sequence helpers

Range(s) == {s[i] : i \in 1..Len(s)}

At0(s, i) == s[i + 1]

Set0(s, i, v) == [s EXCEPT ![i + 1] = v]

PopBack(s) == SubSeq(s, 1, Len(s) - 1)

\* A value that is computed once and then used by name.
Let(value, In(_)) == In(value)

\* llvm::SmallPtrSet-based uniquing: keep the first occurrence of each element.
RECURSIVE Unique(_)
Unique(s) ==
    IF s = <<>> THEN <<>>
    ELSE LET front == Unique(PopBack(s))
             x == s[Len(s)]
         IN IF x \in Range(front) THEN front ELSE Append(front, x)

\* ------------------------------------------------------------ constraints

\* A type is the sequence of its type-variable occurrences, in the order
\* TypeBase::getTypeVariables appends them.
NoBase == <<>>

Leaf(kind, first, second, base) ==
    [Kind |-> kind, First |-> first, Second |-> second, Base |-> base,
     Nested |-> <<>>]

Compound(kind, nested) ==
    [Kind |-> kind, First |-> <<>>, Second |-> <<>>, Base |-> NoBase,
     Nested |-> nested]

\* The constraints the constraint system may own, by identity 1..4: a == b,
\* b subtype c, a disjunction that mentions a in both operand types of one
\* branch and in the overload base type of the other, and a conformance on c
\* alone.
ConstraintDef ==
    << Leaf("Equal", <<1>>, <<2>>, NoBase),
       Leaf("Subtype", <<2>>, <<3>>, NoBase),
       Compound("Disjunction",
                << Leaf("Bind", <<1, 1>>, <<2, 1>>, NoBase),
                   Leaf("BindOverload", <<3>>, <<>>, <<1>>) >>),
       Leaf("ConformsTo", <<3>>, <<>>, NoBase) >>

Constraints == DOMAIN ConstraintDef

\* The types the constraint system may bind a type variable to: one without
\* type variables, one with a single type variable, one mentioning a type
\* variable twice, and one with two type variables.
TypeDef == { <<>>, <<1>>, <<2, 2>>, <<3, 1>> }

NoConstraint == 0

RelationalKinds ==
    {"ApplicableFunction", "Bind", "Construction", "Conversion", "CheckedCast",
     "Equal", "Subtype", "TrivialSubtype", "TypeMember", "ValueMember"}

gatherLeaf(c) ==
    (IF c.Kind \in RelationalKinds THEN c.Second ELSE <<>>)
    \o c.First
    \o (IF c.Kind = "BindOverload" THEN c.Base ELSE <<>>)

RECURSIVE gatherNested(_)
gatherNested(cs) ==
    IF cs = <<>> THEN <<>>
    ELSE gatherLeaf(Head(cs)) \o gatherNested(Tail(cs))

gatherReferencedTypeVarsRec(c) ==
    IF c.Kind \in {"Conjunction", "Disjunction"}
    THEN gatherNested(c.Nested)
    ELSE gatherLeaf(c)

\* A gathering that keeps every occurrence of a type variable.
gatherReferencedTypeVars_everyOccurrence(constraint) ==
    gatherReferencedTypeVarsRec(ConstraintDef[constraint])

gatherReferencedTypeVars(constraint) ==
    Unique(gatherReferencedTypeVarsRec(ConstraintDef[constraint]))

\* ------------------------------------------------------------- the oracle

NoType == [bound |-> FALSE, tvs |-> <<>>]

Type(tvs) == [bound |-> TRUE, tvs |-> tvs]

hasTypeVariable(fixed) == Len(fixed.tvs) > 0

getRepresentative(cs, typeVar) == cs.rep[typeVar]

getFixedType(cs, typeVar) == cs.fixed[cs.rep[typeVar]]

\* ----------------------------------------------------------- graph values

NewNode(index) ==
    [Index |-> index,
     Constraints |-> <<>>,
     ConstraintIndex |-> <<>>,
     Adjacencies |-> <<>>,
     AdjacencyInfo |-> <<>>,
     EquivalenceClass |-> <<>>]

EmptyGraph ==
    [Nodes |-> <<>>, TypeVariables |-> <<>>, Changes |-> <<>>,
     ActiveScope |-> NoScope, err |-> NoErr]

Fail(g, complaint) == IF g.err = NoErr THEN [g EXCEPT !.err = complaint] ELSE g

Known(g, typeVar) == typeVar \in DOMAIN g.Nodes

MakeChange(kind, typeVar, constraint, prevSize, fixed) ==
    [Kind |-> kind, TypeVar |-> typeVar, TheConstraint |-> constraint,
     PrevSize |-> prevSize, FixedType |-> fixed]

addedTypeVariable(typeVar) ==
    MakeChange("AddedTypeVariable", typeVar, NoConstraint, 0, NoType)

addedConstraint(constraint) ==
    MakeChange("AddedConstraint", 0, constraint, 0, NoType)

removedConstraint(constraint) ==
    MakeChange("RemovedConstraint", 0, constraint, 0, NoType)

\* A log entry that remembers the class size after its own member was added.
extendedEquivalenceClass_sizeAfter(typeVar, prevSize) ==
    MakeChange("ExtendedEquivalenceClass", typeVar, NoConstraint, prevSize + 1,
               NoType)

extendedEquivalenceClass(typeVar, prevSize) ==
    MakeChange("ExtendedEquivalenceClass", typeVar, NoConstraint, prevSize, NoType)

boundTypeVariable(typeVar, fixed) ==
    MakeChange("BoundTypeVariable", typeVar, NoConstraint, 0, fixed)

\* A log that takes the change whether or not a scope is active.
recordChange_always(g, change) == [g EXCEPT !.Changes = Append(@, change)]

\* "Record the change, if there are active scopes."
recordChange(g, change) ==
    IF g.ActiveScope # NoScope
    THEN [g EXCEPT !.Changes = Append(@, change)]
    ELSE g

\* ---------------------------------------------------------- node mutation

\* An insertion without the assertion: a constraint already indexed is
\* listed again.
Node_addConstraint_relisting(g, n, constraint) ==
    IF g.err # NoErr THEN g
    ELSE [g EXCEPT
            !.Nodes[n].ConstraintIndex =
                [c \in (DOMAIN @) \cup {constraint} |->
                    IF c = constraint THEN Len(g.Nodes[n].Constraints) ELSE @[c]],
            !.Nodes[n].Constraints = Append(@, constraint)]

\* An insertion that lists the constraint first and moves the others up.
Node_addConstraint_inFront(g, n, constraint) ==
    IF g.err # NoErr THEN g
    ELSE IF constraint \in DOMAIN g.Nodes[n].ConstraintIndex
    THEN Fail(g, "Constraint re-insertion")
    ELSE [g EXCEPT
            !.Nodes[n].ConstraintIndex =
                [c \in (DOMAIN @) \cup {constraint} |->
                    IF c = constraint THEN 0 ELSE @[c] + 1],
            !.Nodes[n].Constraints = <<constraint>> \o @]

\* An insertion that indexes the constraint and does not list it.
Node_addConstraint_indexOnly(g, n, constraint) ==
    IF g.err # NoErr THEN g
    ELSE IF constraint \in DOMAIN g.Nodes[n].ConstraintIndex
    THEN Fail(g, "Constraint re-insertion")
    ELSE [g EXCEPT
            !.Nodes[n].ConstraintIndex =
                @ @@ (constraint :> Len(g.Nodes[n].Constraints))]

Node_addConstraint(g, n, constraint) ==
    IF g.err # NoErr THEN g
    ELSE IF constraint \in DOMAIN g.Nodes[n].ConstraintIndex
    THEN Fail(g, "Constraint re-insertion")
    ELSE [g EXCEPT
            !.Nodes[n].ConstraintIndex =
                @ @@ (constraint :> Len(g.Nodes[n].Constraints)),
            !.Nodes[n].Constraints = Append(@, constraint)]

\* A removal that moves the last constraint and leaves its index as it was.
Node_removeConstraint_staleIndex(g, n, constraint) ==
    IF g.err # NoErr THEN g
    ELSE IF constraint \notin DOMAIN g.Nodes[n].ConstraintIndex
    THEN Fail(g, "removeConstraint: pos != ConstraintIndex.end()")
    ELSE [g EXCEPT
            !.Nodes[n].ConstraintIndex =
                [c \in (DOMAIN @) \ {constraint} |-> @[c]],
            !.Nodes[n].Constraints =
                PopBack(Set0(@, g.Nodes[n].ConstraintIndex[constraint],
                             @[Len(@)]))]

Node_removeConstraint(g, n, constraint) ==
    IF g.err # NoErr THEN g
    ELSE IF constraint \notin DOMAIN g.Nodes[n].ConstraintIndex
    THEN Fail(g, "removeConstraint: pos != ConstraintIndex.end()")
    ELSE
      LET node == g.Nodes[n]
          index == node.ConstraintIndex[constraint]
          erased == [c \in (DOMAIN node.ConstraintIndex) \ {constraint} |->
                        node.ConstraintIndex[c]]
          lastIndex == Len(node.Constraints) - 1
          lastConstraint == At0(node.Constraints, lastIndex)
      IN IF At0(node.Constraints, index) # constraint
         THEN Fail(g, "Mismatched constraint")
         ELSE IF index = lastIndex
         THEN [g EXCEPT !.Nodes[n].ConstraintIndex = erased,
                        !.Nodes[n].Constraints = PopBack(@)]
         ELSE [g EXCEPT
                 !.Nodes[n].ConstraintIndex =
                     [erased EXCEPT ![lastConstraint] = index],
                 !.Nodes[n].Constraints =
                     PopBack(Set0(@, index, lastConstraint))]

NewAdjacency(index) ==
    [Index |-> index, NumConstraints |-> 0, FixedBinding |-> FALSE]

Adjacency_empty(adj) == adj.NumConstraints = 0 /\ ~adj.FixedBinding

\* An accessor that creates the adjacency information and leaves the
\* neighbour out of the vector.
getAdjacency_mapOnly(g, n, typeVar) ==
    IF g.err # NoErr THEN g
    ELSE IF typeVar = n THEN Fail(g, "Cannot be adjacent to oneself")
    ELSE IF typeVar \in DOMAIN g.Nodes[n].AdjacencyInfo THEN g
    ELSE [g EXCEPT
            !.Nodes[n].AdjacencyInfo =
                @ @@ (typeVar :> NewAdjacency(Len(g.Nodes[n].Adjacencies)))]

\* Returns the graph in which node n has adjacency information for typeVar.
getAdjacency(g, n, typeVar) ==
    IF g.err # NoErr THEN g
    ELSE IF typeVar = n THEN Fail(g, "Cannot be adjacent to oneself")
    ELSE IF typeVar \in DOMAIN g.Nodes[n].AdjacencyInfo THEN g
    ELSE [g EXCEPT
            !.Nodes[n].AdjacencyInfo =
                @ @@ (typeVar :> NewAdjacency(Len(g.Nodes[n].Adjacencies))),
            !.Nodes[n].Adjacencies = Append(@, typeVar)]

\* The lambda of removeAdjacency.
removeAdjacency_modify(adj) ==
    IF adj.NumConstraints > 0
    THEN [adj |-> [adj EXCEPT !.NumConstraints = @ - 1], err |-> NoErr]
    ELSE [adj |-> adj, err |-> "No adjacency to remove?"]

\* A lambda that clears the flag and forgets the count with it.
removeFixedBinding_modify_resetCount(adj) ==
    IF adj.FixedBinding
    THEN [adj |-> [adj EXCEPT !.FixedBinding = FALSE, !.NumConstraints = 0],
          err |-> NoErr]
    ELSE [adj |-> adj, err |-> "Not a fixed binding?"]

\* The lambda of removeFixedBinding.
removeFixedBinding_modify(adj) ==
    IF adj.FixedBinding
    THEN [adj |-> [adj EXCEPT !.FixedBinding = FALSE], err |-> NoErr]
    ELSE [adj |-> adj, err |-> "Not a fixed binding?"]

\* The function modifyAdjacency is handed, applied: it yields
\* [adj |-> the modified adjacency, err |-> an assertion it failed].
modifyAdjacency_apply(modify, adj) ==
    CASE modify = "removeAdjacency" -> removeAdjacency_modify(adj)
      [] modify = "removeFixedBinding" -> removeFixedBinding_modify(adj)

modifyAdjacency(g, n, typeVar, modify) ==
    IF g.err # NoErr THEN g
    ELSE IF typeVar \notin DOMAIN g.Nodes[n].AdjacencyInfo
    THEN Fail(g, "Type variables not adjacent")
    ELSE
      LET node == g.Nodes[n]
          pos == node.AdjacencyInfo[typeVar]
          m == modifyAdjacency_apply(modify, pos)
          index == pos.Index
          erased == [t \in (DOMAIN node.AdjacencyInfo) \ {typeVar} |->
                        node.AdjacencyInfo[t]]
          lastIndex == Len(node.Adjacencies) - 1
          lastTypeVar == At0(node.Adjacencies, lastIndex)
      IN IF At0(node.Adjacencies, pos.Index) # typeVar
         THEN Fail(g, "Mismatched adjacency")
         ELSE IF m.err # NoErr THEN Fail(g, m.err)
         ELSE IF ~Adjacency_empty(m.adj)
         THEN [g EXCEPT !.Nodes[n].AdjacencyInfo[typeVar] = m.adj]
         ELSE IF index = lastIndex
         THEN [g EXCEPT !.Nodes[n].AdjacencyInfo = erased,
                        !.Nodes[n].Adjacencies = PopBack(@)]
         ELSE [g EXCEPT
                 !.Nodes[n].AdjacencyInfo =
                     [erased EXCEPT ![lastTypeVar].Index = index],
                 !.Nodes[n].Adjacencies =
                     PopBack(Set0(@, index, lastTypeVar))]

\* An adjacency whose degree is set rather than bumped.
addAdjacency_setDegree(g, n, typeVar) ==
    Let(getAdjacency(g, n, typeVar), LAMBDA g1 :
      IF g1.err # NoErr THEN g1
      ELSE [g1 EXCEPT !.Nodes[n].AdjacencyInfo[typeVar].NumConstraints = 1])

addAdjacency(g, n, typeVar) ==
    Let(getAdjacency(g, n, typeVar), LAMBDA g1 :
      IF g1.err # NoErr THEN g1
      ELSE [g1 EXCEPT !.Nodes[n].AdjacencyInfo[typeVar].NumConstraints = @ + 1])

\* A removal that lowers the degree and keeps the adjacency's slot.
removeAdjacency_keepSlot(g, n, typeVar) ==
    IF g.err # NoErr THEN g
    ELSE IF typeVar \notin DOMAIN g.Nodes[n].AdjacencyInfo
    THEN Fail(g, "Type variables not adjacent")
    ELSE IF g.Nodes[n].AdjacencyInfo[typeVar].NumConstraints = 0
    THEN Fail(g, "No adjacency to remove?")
    ELSE [g EXCEPT !.Nodes[n].AdjacencyInfo[typeVar].NumConstraints = @ - 1]

removeAdjacency(g, n, typeVar) ==
    modifyAdjacency(g, n, typeVar, "removeAdjacency")

addFixedBinding(g, n, typeVar) ==
    Let(getAdjacency(g, n, typeVar), LAMBDA g1 :
      IF g1.err # NoErr THEN g1
      ELSE IF g1.Nodes[n].AdjacencyInfo[typeVar].FixedBinding
      THEN Fail(g1, "Already marked as a fixed binding?")
      ELSE [g1 EXCEPT !.Nodes[n].AdjacencyInfo[typeVar].FixedBinding = TRUE])

\* A removal that clears the flag and keeps the adjacency's slot.
removeFixedBinding_keepSlot(g, n, typeVar) ==
    IF g.err # NoErr THEN g
    ELSE IF typeVar \notin DOMAIN g.Nodes[n].AdjacencyInfo
    THEN Fail(g, "Type variables not adjacent")
    ELSE IF ~g.Nodes[n].AdjacencyInfo[typeVar].FixedBinding
    THEN Fail(g, "Not a fixed binding?")
    ELSE [g EXCEPT !.Nodes[n].AdjacencyInfo[typeVar].FixedBinding = FALSE]

removeFixedBinding(g, n, typeVar) ==
    modifyAdjacency(g, n, typeVar, "removeFixedBinding")

\* getEquivalenceClassUnsafe: the class is seeded with the node's own type
\* variable the first time it is read.
getEquivalenceClassUnsafe(g, n) ==
    IF g.err # NoErr THEN g
    ELSE IF g.Nodes[n].EquivalenceClass = <<>>
    THEN [g EXCEPT !.Nodes[n].EquivalenceClass = <<n>>]
    ELSE g

getEquivalenceClass(cs, g, n) ==
    IF g.err # NoErr THEN g
    ELSE IF n # getRepresentative(cs, n)
    THEN Fail(g, "Can't request equivalence class from non-representative type var")
    ELSE getEquivalenceClassUnsafe(g, n)

\* An extension that seeds the class and appends nothing.
addToEquivalenceClass_seedOnly(cs, g, n, typeVars) ==
    IF g.err # NoErr THEN g
    ELSE IF n # getRepresentative(cs, n)
    THEN Fail(g, "Can't extend equivalence class of non-representative type var")
    ELSE [g EXCEPT !.Nodes[n].EquivalenceClass = IF @ = <<>> THEN <<n>> ELSE @]

\* An extension that leaves the class of the representative as it was.
addToEquivalenceClass_forgotten(cs, g, n, typeVars) ==
    IF g.err # NoErr THEN g
    ELSE IF n # getRepresentative(cs, n)
    THEN Fail(g, "Can't extend equivalence class of non-representative type var")
    ELSE g

\* An extension that puts the new members in front of the old ones.
addToEquivalenceClass_inFront(cs, g, n, typeVars) ==
    IF g.err # NoErr THEN g
    ELSE IF n # getRepresentative(cs, n)
    THEN Fail(g, "Can't extend equivalence class of non-representative type var")
    ELSE [g EXCEPT !.Nodes[n].EquivalenceClass =
                      typeVars \o (IF @ = <<>> THEN <<n>> ELSE @)]

addToEquivalenceClass(cs, g, n, typeVars) ==
    IF g.err # NoErr THEN g
    ELSE IF n # getRepresentative(cs, n)
    THEN Fail(g, "Can't extend equivalence class of non-representative type var")
    ELSE [g EXCEPT !.Nodes[n].EquivalenceClass =
                      (IF @ = <<>> THEN <<n>> ELSE @) \o typeVars]


\* ---------------------------------------------------------- graph mutation

RECURSIVE lookupNode(_, _, _)
RECURSIVE mergeNodes(_, _, _, _)
RECURSIVE bindTypeVariable(_, _, _, _)
RECURSIVE bindTypeVariable_loop(_, _, _, _, _)

\* A lookup that logs the type variable as added each time it is asked for.
lookupNode_logEachCall(cs, g, typeVar) ==
    IF g.err # NoErr THEN g
    ELSE IF Known(g, typeVar) THEN recordChange(g, addedTypeVariable(typeVar))
    ELSE
      Let(recordChange(
            [g EXCEPT
               !.Nodes = @ @@ (typeVar :> NewNode(Len(g.TypeVariables))),
               !.TypeVariables = Append(@, typeVar)],
            addedTypeVariable(typeVar)), LAMBDA g1 :
      Let(getRepresentative(cs, typeVar), LAMBDA typeVarRep :
      Let(getFixedType(cs, typeVarRep), LAMBDA fixed :
        IF typeVar # typeVarRep THEN mergeNodes(cs, g1, typeVar, typeVarRep)
        ELSE IF fixed.bound THEN bindTypeVariable(cs, g1, typeVar, fixed)
        ELSE g1)))

\* A lookup that puts the new type variable in the first slot of the vector.
lookupNode_inFront(cs, g, typeVar) ==
    IF g.err # NoErr THEN g
    ELSE IF Known(g, typeVar) THEN g
    ELSE
      Let(recordChange(
            [g EXCEPT
               !.Nodes = @ @@ (typeVar :> NewNode(0)),
               !.TypeVariables = <<typeVar>> \o @],
            addedTypeVariable(typeVar)), LAMBDA g1 :
      Let(getRepresentative(cs, typeVar), LAMBDA typeVarRep :
      Let(getFixedType(cs, typeVarRep), LAMBDA fixed :
        IF typeVar # typeVarRep THEN mergeNodes(cs, g1, typeVar, typeVarRep)
        ELSE IF fixed.bound THEN bindTypeVariable(cs, g1, typeVar, fixed)
        ELSE g1)))

\* A lookup that creates the node and neither merges nor binds it.
lookupNode_createOnly(cs, g, typeVar) ==
    IF g.err # NoErr THEN g
    ELSE IF Known(g, typeVar) THEN g
    ELSE recordChange(
           [g EXCEPT
              !.Nodes = @ @@ (typeVar :> NewNode(Len(g.TypeVariables))),
              !.TypeVariables = Append(@, typeVar)],
           addedTypeVariable(typeVar))

\* The graph after lookupNode(typeVar); the pair the call returns is
\* lookupNode_result of that graph.
lookupNode(cs, g, typeVar) ==
    IF g.err # NoErr THEN g
    ELSE IF Known(g, typeVar) THEN g
    ELSE
      Let(recordChange(
            [g EXCEPT
               !.Nodes = @ @@ (typeVar :> NewNode(Len(g.TypeVariables))),
               !.TypeVariables = Append(@, typeVar)],
            addedTypeVariable(typeVar)), LAMBDA g1 :
      Let(getRepresentative(cs, typeVar), LAMBDA typeVarRep :
      Let(getFixedType(cs, typeVarRep), LAMBDA fixed :
        IF typeVar # typeVarRep THEN mergeNodes(cs, g1, typeVar, typeVarRep)
        ELSE IF fixed.bound THEN bindTypeVariable(cs, g1, typeVar, fixed)
        ELSE g1)))

lookupNode_result(g, typeVar) ==
    [Node |-> typeVar, Index |-> g.Nodes[typeVar].Index]

mergeNodes(cs, g, typeVar1, typeVar2) ==
    IF g.err # NoErr THEN g
    ELSE IF getRepresentative(cs, typeVar1) # getRepresentative(cs, typeVar2)
    THEN Fail(g, "type representatives don't match")
    ELSE
      Let(getRepresentative(cs, typeVar1), LAMBDA typeVarRep :
      \* auto &repNode = (*this)[typeVarRep];
      Let(lookupNode(cs, g, typeVarRep), LAMBDA g1 :
        IF g1.err # NoErr THEN g1
        ELSE IF ~(typeVar1 = typeVarRep \/ typeVar2 = typeVarRep)
        THEN Fail(g1, "neither type variable is the new representative?")
        ELSE
      Let(IF typeVar1 = typeVarRep THEN typeVar2 ELSE typeVar1,
          LAMBDA typeVarNonRep :
      \* The change is recorded before the non-representative is looked up;
      \* its size argument reads (and seeds) the representative's class.
      Let(IF g1.ActiveScope # NoScope
          THEN Let(getEquivalenceClass(cs, g1, typeVarRep), LAMBDA gs :
                 IF gs.err # NoErr THEN gs
                 ELSE recordChange(gs, extendedEquivalenceClass(
                        typeVarRep,
                        Len(gs.Nodes[typeVarRep].EquivalenceClass))))
          ELSE g1, LAMBDA g2 :
      \* auto &nonRepNode = (*this)[typeVarNonRep];
      Let(getEquivalenceClassUnsafe(lookupNode(cs, g2, typeVarNonRep),
                                    typeVarNonRep), LAMBDA g4 :
        IF g4.err # NoErr THEN g4
        ELSE addToEquivalenceClass(cs, g4, typeVarRep,
                                   g4.Nodes[typeVarNonRep].EquivalenceClass))))))

\* The loop of bindTypeVariable over typeVars from position i on; known is
\* the loop's knownTypeVars.
bindTypeVariable_loop(cs, g, typeVar, fixed, i) ==
    IF g.err # NoErr \/ i > Len(fixed.tvs) THEN g
    ELSE
      LET otherTypeVar == fixed.tvs[i]
          known == {fixed.tvs[j] : j \in 1..(i - 1)}
      IN IF otherTypeVar \in known
         THEN bindTypeVariable_loop(cs, g, typeVar, fixed, i + 1)
         ELSE
           bindTypeVariable_loop(
             cs,
             addFixedBinding(
               addFixedBinding(lookupNode(cs, g, otherTypeVar),
                               otherTypeVar, typeVar),
               typeVar, otherTypeVar),
             typeVar, fixed, i + 1)

bindTypeVariable(cs, g, typeVar, fixed) ==
    IF g.err # NoErr THEN g
    ELSE IF ~hasTypeVariable(fixed) THEN g
    ELSE
      Let(bindTypeVariable_loop(cs, lookupNode(cs, g, typeVar), typeVar,
                                fixed, 1), LAMBDA g2 :
        IF g2.err # NoErr THEN g2
        ELSE recordChange(g2, boundTypeVariable(typeVar, fixed)))

RECURSIVE unbindTypeVariable_loop(_, _, _, _, _)
unbindTypeVariable_loop(cs, g, typeVar, fixed, i) ==
    IF g.err # NoErr \/ i > Len(fixed.tvs) THEN g
    ELSE
      LET otherTypeVar == fixed.tvs[i]
          known == {fixed.tvs[j] : j \in 1..(i - 1)}
      IN IF otherTypeVar \in known
         THEN unbindTypeVariable_loop(cs, g, typeVar, fixed, i + 1)
         ELSE
           unbindTypeVariable_loop(
             cs,
             removeFixedBinding(
               removeFixedBinding(lookupNode(cs, g, otherTypeVar),
                                  otherTypeVar, typeVar),
               typeVar, otherTypeVar),
             typeVar, fixed, i + 1)

unbindTypeVariable(cs, g, typeVar, fixed) ==
    IF g.err # NoErr THEN g
    ELSE IF ~hasTypeVariable(fixed) THEN g
    ELSE unbindTypeVariable_loop(cs, lookupNode(cs, g, typeVar), typeVar, fixed, 1)

\* The inner loop of addConstraint: node typeVar becomes adjacent to every
\* other referenced type variable, from position j on.
\* The loop of gatherConstraints over the members of the class from position
\* i on: [g |-> the graph, constraints |-> the constraints pushed so far].
\* A loop that appends a constraint only when the output lacks it.
RECURSIVE gatherConstraints_loop_unique(_, _, _, _, _)
gatherConstraints_loop_unique(cs, g, equivClass, i, constraints) ==
    IF g.err # NoErr \/ i > Len(equivClass)
    THEN [g |-> g, constraints |-> constraints]
    ELSE Let(lookupNode(cs, g, equivClass[i]), LAMBDA g1 :
           IF g1.err # NoErr THEN [g |-> g1, constraints |-> constraints]
           ELSE gatherConstraints_loop_unique(
                  cs, g1, equivClass, i + 1,
                  constraints
                    \o SelectSeq(g1.Nodes[equivClass[i]].Constraints,
                                 LAMBDA c : c \notin Range(constraints))))

RECURSIVE gatherConstraints_loop(_, _, _, _, _)
gatherConstraints_loop(cs, g, equivClass, i, constraints) ==
    IF g.err # NoErr \/ i > Len(equivClass)
    THEN [g |-> g, constraints |-> constraints]
    ELSE Let(lookupNode(cs, g, equivClass[i]), LAMBDA g1 :
           IF g1.err # NoErr THEN [g |-> g1, constraints |-> constraints]
           ELSE gatherConstraints_loop(
                  cs, g1, equivClass, i + 1,
                  constraints \o g1.Nodes[equivClass[i]].Constraints))

\* A gathering that reads the node of the type variable asked about alone.
gatherConstraints_ownNode(cs, g, typeVar) ==
    Let(lookupNode(cs, g, typeVar), LAMBDA g1 :
      IF g1.err # NoErr THEN [g |-> g1, constraints |-> <<>>]
      ELSE [g |-> g1, constraints |-> g1.Nodes[typeVar].Constraints])

\* gatherConstraints with the caller's vector as it is at the call.
gatherConstraints_into(cs, g, typeVar, constraints) ==
    Let(getRepresentative(cs, typeVar), LAMBDA typeVarRep :
    Let(getEquivalenceClass(cs, lookupNode(cs, g, typeVarRep), typeVarRep),
        LAMBDA g1 :
      IF g1.err # NoErr THEN [g |-> g1, constraints |-> constraints]
      ELSE gatherConstraints_loop(cs, g1, g1.Nodes[typeVarRep].EquivalenceClass,
                                  1, constraints)))

\* gatherConstraints called with an empty vector.
gatherConstraints(cs, g, typeVar) == gatherConstraints_into(cs, g, typeVar, <<>>)

RECURSIVE addConstraint_adjacencies(_, _, _, _)
addConstraint_adjacencies(g, typeVar, referencedTypeVars, j) ==
    IF g.err # NoErr \/ j > Len(referencedTypeVars) THEN g
    ELSE IF referencedTypeVars[j] = typeVar
    THEN addConstraint_adjacencies(g, typeVar, referencedTypeVars, j + 1)
    ELSE addConstraint_adjacencies(
           addAdjacency(g, typeVar, referencedTypeVars[j]),
           typeVar, referencedTypeVars, j + 1)

RECURSIVE addConstraint_loop(_, _, _, _, _)
addConstraint_loop(cs, g, constraint, referencedTypeVars, i) ==
    IF g.err # NoErr \/ i > Len(referencedTypeVars) THEN g
    ELSE
      Let(referencedTypeVars[i], LAMBDA typeVar :
        addConstraint_loop(
          cs,
          addConstraint_adjacencies(
            Node_addConstraint(lookupNode(cs, g, typeVar), typeVar, constraint),
            typeVar, referencedTypeVars, 1),
          constraint, referencedTypeVars, i + 1))

addConstraint(cs, g, constraint) ==
    IF g.err # NoErr THEN g
    ELSE
      Let(addConstraint_loop(cs, g, constraint,
                             gatherReferencedTypeVars(constraint), 1),
          LAMBDA g1 :
        IF g1.err # NoErr THEN g1
        ELSE recordChange(g1, addedConstraint(constraint)))

RECURSIVE removeConstraint_adjacencies(_, _, _, _)
removeConstraint_adjacencies(g, typeVar, referencedTypeVars, j) ==
    IF g.err # NoErr \/ j > Len(referencedTypeVars) THEN g
    ELSE IF referencedTypeVars[j] = typeVar
    THEN removeConstraint_adjacencies(g, typeVar, referencedTypeVars, j + 1)
    ELSE removeConstraint_adjacencies(
           removeAdjacency(g, typeVar, referencedTypeVars[j]),
           typeVar, referencedTypeVars, j + 1)

RECURSIVE removeConstraint_loop(_, _, _, _, _)
removeConstraint_loop(cs, g, constraint, referencedTypeVars, i) ==
    IF g.err # NoErr \/ i > Len(referencedTypeVars) THEN g
    ELSE
      Let(referencedTypeVars[i], LAMBDA typeVar :
        removeConstraint_loop(
          cs,
          removeConstraint_adjacencies(
            Node_removeConstraint(lookupNode(cs, g, typeVar), typeVar,
                                  constraint),
            typeVar, referencedTypeVars, 1),
          constraint, referencedTypeVars, i + 1))

removeConstraint(cs, g, constraint) ==
    IF g.err # NoErr THEN g
    ELSE
      Let(removeConstraint_loop(cs, g, constraint,
                                gatherReferencedTypeVars(constraint), 1),
          LAMBDA g1 :
        IF g1.err # NoErr THEN g1
        ELSE recordChange(g1, removedConstraint(constraint)))

\* A removal that erases the node and leaves the type-variable vector alone.
removeNode_keepVector(g, typeVar) ==
    IF g.err # NoErr THEN g
    ELSE IF ~Known(g, typeVar) THEN Fail(g, "No node for this type variable")
    ELSE [g EXCEPT !.Nodes = [t \in (DOMAIN g.Nodes) \ {typeVar} |-> g.Nodes[t]]]

\* The moved type variable's StoredNode::Index is left as it was.
removeNode(g, typeVar) ==
    IF g.err # NoErr THEN g
    ELSE IF ~Known(g, typeVar) THEN Fail(g, "No node for this type variable")
    ELSE
      LET index == g.Nodes[typeVar].Index
          lastIndex == Len(g.TypeVariables) - 1
          rest == (DOMAIN g.Nodes) \ {typeVar}
      IN [g EXCEPT
            !.Nodes = [t \in rest |-> g.Nodes[t]],
            !.TypeVariables =
                PopBack(IF index < lastIndex
                        THEN Set0(@, index, At0(@, lastIndex))
                        ELSE @)]

\* ------------------------------------------------------- scopes and undo

Change_undo_kind(cs, g, change) ==
    CASE change.Kind = "AddedTypeVariable" ->
           removeNode(g, change.TypeVar)
      [] change.Kind = "AddedConstraint" ->
           removeConstraint(cs, g, change.TheConstraint)
      [] change.Kind = "RemovedConstraint" ->
           addConstraint(cs, g, change.TheConstraint)
      [] change.Kind = "ExtendedEquivalenceClass" ->
           Let(lookupNode(cs, g, change.TypeVar), LAMBDA g1 :
             IF g1.err # NoErr THEN g1
             ELSE IF change.PrevSize > Len(g1.Nodes[change.TypeVar].EquivalenceClass)
             THEN Fail(g1, "erase past the end of EquivalenceClass")
             ELSE [g1 EXCEPT !.Nodes[change.TypeVar].EquivalenceClass =
                                SubSeq(@, 1, change.PrevSize)])
      [] change.Kind = "BoundTypeVariable" ->
           unbindTypeVariable(cs, g, change.TypeVar, change.FixedType)

\* An undo that leaves the scope active while it runs.
Change_undo_recording(cs, g, change) ==
    IF g.err # NoErr THEN g
    ELSE Change_undo_kind(cs, g, change)

\* SaveAndRestore: the active scope is null while the change is undone.
Change_undo(cs, g, change) ==
    IF g.err # NoErr THEN g
    ELSE [Change_undo_kind(cs, [g EXCEPT !.ActiveScope = NoScope], change)
             EXCEPT !.ActiveScope = g.ActiveScope]

\* A loop that pops every change, those of the enclosing scopes too.
RECURSIVE Scope_popChanges_toEmpty(_, _, _)
Scope_popChanges_toEmpty(cs, g, NumChanges) ==
    IF g.err # NoErr \/ Len(g.Changes) = 0 THEN g
    ELSE Let(Change_undo(cs, g, g.Changes[Len(g.Changes)]), LAMBDA g1 :
           IF g1.err # NoErr THEN g1
           ELSE Scope_popChanges_toEmpty(cs, [g1 EXCEPT !.Changes = PopBack(@)],
                                         NumChanges))

\* The loop of ~ConstraintGraphScope.
RECURSIVE Scope_popChanges(_, _, _)
Scope_popChanges(cs, g, NumChanges) ==
    IF g.err # NoErr \/ Len(g.Changes) <= NumChanges THEN g
    ELSE Let(Change_undo(cs, g, g.Changes[Len(g.Changes)]), LAMBDA g1 :
           IF g1.err # NoErr THEN g1
           ELSE Scope_popChanges(cs, [g1 EXCEPT !.Changes = PopBack(@)],
                                 NumChanges))

Scope_destroy(cs, g, scope) ==
    IF g.err # NoErr THEN g
    ELSE IF Len(g.Changes) < scope.NumChanges THEN Fail(g, "Scope stack corrupted")
    ELSE Let(Scope_popChanges(cs, g, scope.NumChanges), LAMBDA g1 :
           IF g1.err # NoErr THEN g1
           ELSE [g1 EXCEPT !.ActiveScope = scope.ParentScope])


\* ------------------------------------------------- connected components

\* The traversal state: the graph (lookupNode may change it), the component
\* of each type-variable slot, and a failed assertion or out-of-range access.
RECURSIVE connectedComponentsDFS(_, _, _, _)
RECURSIVE visitAdjacencies(_, _, _, _, _)

visitAdjacencies(cs, st, typeVars, i, component) ==
    IF st.g.err # NoErr \/ i > Len(typeVars) THEN st
    ELSE
      Let(typeVars[i], LAMBDA adj :
      Let(lookupNode(cs, st.g, adj), LAMBDA g1 :
        IF g1.err # NoErr THEN [st EXCEPT !.g = g1]
        ELSE
      Let(g1.Nodes[adj].Index, LAMBDA index :
        IF index >= Len(st.components)
        THEN [st EXCEPT !.g = Fail(g1, "components index out of range")]
        ELSE
      Let(At0(st.components, index), LAMBDA curComponent :
        IF curComponent = component
        THEN visitAdjacencies(cs, [st EXCEPT !.g = g1], typeVars, i + 1, component)
        ELSE IF curComponent # Len(st.components)
        THEN [st EXCEPT !.g = Fail(g1, "Already in a component?")]
        ELSE visitAdjacencies(
               cs,
               connectedComponentsDFS(
                 cs,
                 [g |-> g1, components |-> Set0(st.components, index, component)],
                 adj, component),
               typeVars, i + 1, component)))))

\* A traversal that follows adjacencies and no equivalence class.
connectedComponentsDFS_adjacenciesOnly(cs, st, node, component) ==
    IF st.g.err # NoErr THEN st
    ELSE visitAdjacencies(cs, st, st.g.Nodes[node].Adjacencies, 1, component)

connectedComponentsDFS(cs, st, node, component) ==
    IF st.g.err # NoErr THEN st
    ELSE
      Let(visitAdjacencies(cs, st, st.g.Nodes[node].Adjacencies, 1, component),
          LAMBDA st1 :
      Let(getRepresentative(cs, node), LAMBDA typeVarRep :
        IF st1.g.err # NoErr THEN st1
        ELSE IF typeVarRep = node
        THEN Let(getEquivalenceClass(cs, st1.g, node), LAMBDA g2 :
               visitAdjacencies(cs, [st1 EXCEPT !.g = g2],
                                Tail(g2.Nodes[node].EquivalenceClass), 1,
                                component))
        ELSE visitAdjacencies(cs, st1, <<typeVarRep>>, 1, component)))

\* The first loop of computeConnectedComponents, from slot i (0-based) on.
RECURSIVE computeConnectedComponents_search(_, _, _, _, _)
computeConnectedComponents_search(cs, st, numComponents, numTypeVariables, i) ==
    IF st.g.err # NoErr \/ i = numTypeVariables
    THEN [g |-> st.g, components |-> st.components, numComponents |-> numComponents]
    ELSE IF i >= Len(st.g.TypeVariables)
    THEN [g |-> Fail(st.g, "TypeVariables index out of range"),
          components |-> st.components, numComponents |-> numComponents]
    ELSE
      Let(At0(st.g.TypeVariables, i), LAMBDA typeVar :
      Let(lookupNode(cs, st.g, typeVar), LAMBDA g1 :
        IF g1.err # NoErr
        THEN [g |-> g1, components |-> st.components,
              numComponents |-> numComponents]
        ELSE
      Let(g1.Nodes[typeVar].Index, LAMBDA index :
        IF index >= Len(st.components)
        THEN [g |-> Fail(g1, "components index out of range"),
              components |-> st.components, numComponents |-> numComponents]
        ELSE IF At0(st.components, index) # numTypeVariables
        THEN computeConnectedComponents_search(
               cs, [st EXCEPT !.g = g1], numComponents, numTypeVariables, i + 1)
        ELSE computeConnectedComponents_search(
               cs,
               connectedComponentsDFS(
                 cs,
                 [g |-> g1,
                  components |-> Set0(st.components, index, numComponents)],
                 typeVar, numComponents),
               numComponents + 1, numTypeVariables, i + 1))))

\* A liveness vector that takes any type variable as requested.
componentHasUnboundTypeVar_anyRequested(cs, g, components, numComponents, typeVarSubset) ==
    [k \in 1..numComponents |->
        \E i \in 0..(Len(components) - 1) :
            /\ At0(components, i) = k - 1
            /\ ~getFixedType(cs, At0(g.TypeVariables, i)).bound]

\* A liveness vector that takes a type variable with a fixed type as live.
componentHasUnboundTypeVar_anyMember(cs, g, components, numComponents, typeVarSubset) ==
    [k \in 1..numComponents |->
        \E i \in 0..(Len(components) - 1) :
            /\ At0(components, i) = k - 1
            /\ (typeVarSubset = {} \/ At0(g.TypeVariables, i) \in typeVarSubset)]

\* componentHasUnboundTypeVar after the second loop: component k (0-based)
\* is live when some slot in it holds a type variable without a fixed type
\* that is in the caller's subset, if the caller gave one.
componentHasUnboundTypeVar(cs, g, components, numComponents, typeVarSubset) ==
    [k \in 1..numComponents |->
        \E i \in 0..(Len(components) - 1) :
            /\ At0(components, i) = k - 1
            /\ ~getFixedType(cs, At0(g.TypeVariables, i)).bound
            /\ (typeVarSubset = {} \/ At0(g.TypeVariables, i) \in typeVarSubset)]

\* A renumbering that counts the live components and keeps their numbers.
componentRenumbering_keepNumbers(hasUnbound, renumbering, numComponents, i) ==
    [renumbering |-> [k \in 1..Len(hasUnbound) |->
                        IF hasUnbound[k] THEN k - 1 ELSE 0],
     numComponents |-> Cardinality({k \in 1..Len(hasUnbound) : hasUnbound[k]})]

\* The renumbering loop from component i (0-based) on: renumbering is the
\* vector so far (0 where the component is skipped), numComponents the count.
RECURSIVE componentRenumbering(_, _, _, _)
componentRenumbering(hasUnbound, renumbering, numComponents, i) ==
    IF i = Len(hasUnbound)
    THEN [renumbering |-> renumbering, numComponents |-> numComponents]
    ELSE IF ~At0(hasUnbound, i)
    THEN componentRenumbering(hasUnbound, renumbering, numComponents, i + 1)
    ELSE componentRenumbering(hasUnbound, Set0(renumbering, i, numComponents),
                              numComponents + 1, i + 1)

\* The last loop: the live type variables are copied out and components is
\* compacted in place, from slot i (0-based) on; outIndex is Len(out).
RECURSIVE computeConnectedComponents_copy(_, _, _, _, _, _)
computeConnectedComponents_copy(g, hasUnbound, renumbering, out, components, i) ==
    IF i = Len(g.TypeVariables)
    THEN [typeVars |-> out,
          components |-> SubSeq(components, 1, Len(out))]
    ELSE IF ~At0(hasUnbound, At0(components, i))
    THEN computeConnectedComponents_copy(g, hasUnbound, renumbering, out,
                                         components, i + 1)
    ELSE computeConnectedComponents_copy(
           g, hasUnbound, renumbering,
           Append(out, At0(g.TypeVariables, i)),
           Set0(components, Len(out), At0(renumbering, At0(components, i))),
           i + 1)

\* The call's results: the graph afterwards, the type variables and the
\* components written back to the caller's vectors, and the returned count.
computeConnectedComponents(cs, g, typeVarSubset) ==
    Let(Len(g.TypeVariables), LAMBDA numTypeVariables :
    Let(computeConnectedComponents_search(
          cs,
          [g |-> g,
           components |-> [i \in 1..numTypeVariables |-> numTypeVariables]],
          0, numTypeVariables, 0), LAMBDA found :
      IF found.g.err # NoErr
      THEN [g |-> found.g, typeVars |-> <<>>, components |-> <<>>,
            numComponents |-> 0, traversal |-> found.components]
      ELSE IF \/ \E i \in 1..Len(found.components) :
                   found.components[i] >= found.numComponents
              \/ Len(found.g.TypeVariables) # numTypeVariables
      THEN [g |-> Fail(found.g, "componentHasUnboundTypeVar index out of range"),
            typeVars |-> <<>>, components |-> <<>>, numComponents |-> 0,
            traversal |-> found.components]
      ELSE
    Let(componentHasUnboundTypeVar(cs, found.g, found.components,
                                   found.numComponents, typeVarSubset),
        LAMBDA hasUnbound :
    Let(componentRenumbering(hasUnbound, [k \in 1..found.numComponents |-> 0],
                             0, 0), LAMBDA renumbered :
    Let(computeConnectedComponents_copy(found.g, hasUnbound,
                                        renumbered.renumbering, <<>>,
                                        found.components, 0), LAMBDA copied :
      [g |-> found.g, typeVars |-> copied.typeVars,
       components |-> copied.components,
       numComponents |-> renumbered.numComponents,
       traversal |-> found.components])))))

\* ------------------------------------------------------------ the verifier

\* The verifier's requirements are evaluated kind by kind rather than
\* element by element: which complaint is reported first may differ from the
\* code's iteration order, whether there is one does not.

\* expectedAdjacencies of Node::verify: for each other type variable, the
\* number of the node's constraints that reference it.
expectedAdjacencies(node, n) ==
    LET count == [t \in TypeVars |->
                    Cardinality({i \in 1..Len(node.Constraints) :
                        t \in Range(gatherReferencedTypeVars(node.Constraints[i]))})]
    IN [t \in {u \in TypeVars \ {n} : count[u] > 0} |-> count[t]]

\* Node::verify: the complaint it aborts with, NoErr when it returns.
Node_verify(node, n) ==
    IF Len(node.Constraints) # Cardinality(DOMAIN node.ConstraintIndex)
    THEN "constraint vector and map have different sizes"
    ELSE IF \E c \in DOMAIN node.ConstraintIndex :
               ~(node.ConstraintIndex[c] < Len(node.Constraints))
    THEN "constraint index out-of-range"
    ELSE IF \E c \in DOMAIN node.ConstraintIndex :
               c # At0(node.Constraints, node.ConstraintIndex[c])
    THEN "constraint map provides wrong index into vector"
    ELSE IF Len(node.Adjacencies) # Cardinality(DOMAIN node.AdjacencyInfo)
    THEN "adjacency vector and map have different sizes"
    ELSE IF \E t \in DOMAIN node.AdjacencyInfo :
               ~(node.AdjacencyInfo[t].Index < Len(node.Adjacencies))
    THEN "adjacency index out-of-range"
    ELSE IF \E t \in DOMAIN node.AdjacencyInfo :
               t # At0(node.Adjacencies, node.AdjacencyInfo[t].Index)
    THEN "adjacency map provides wrong index into vector"
    ELSE IF \E t \in DOMAIN node.AdjacencyInfo :
               Adjacency_empty(node.AdjacencyInfo[t])
    THEN "adjacency information should have been removed"
    ELSE IF \E t \in DOMAIN node.AdjacencyInfo :
               ~(node.AdjacencyInfo[t].NumConstraints <= Len(node.Constraints))
    THEN "adjacency information has higher degree than # of constraints"
    ELSE
      Let(expectedAdjacencies(node, n), LAMBDA expected :
        IF \E t \in DOMAIN expected : t \notin DOMAIN node.AdjacencyInfo
        THEN "missing adjacency information for type variable"
        ELSE IF \E t \in DOMAIN expected :
                   expected[t] # node.AdjacencyInfo[t].NumConstraints
        THEN "wrong number of adjacencies for type variable"
        \* The search for something extra requires of each adjacency that
        \* AdjacencyInfo itself has it (line 870).
        ELSE IF /\ Cardinality(DOMAIN node.AdjacencyInfo)
                     # Cardinality(DOMAIN expected)
                /\ \E t \in DOMAIN node.AdjacencyInfo :
                      ~(t \in DOMAIN node.AdjacencyInfo)
        THEN "extraneous adjacency info for type variable"
        ELSE NoErr)

\* The first loop of verify over the type-variable vector from position i
\* on: [g |-> the graph (the lookup and the class accessor may change it),
\* complaint |-> the complaint it aborts with]. A lookup that creates a node
\* would grow the vector the loop iterates over; that is reported as a
\* complaint of its own.
RECURSIVE verify_classes(_, _, _, _)
verify_classes(cs, g, typeVars, i) ==
    IF i > Len(typeVars) THEN [g |-> g, complaint |-> g.err]
    ELSE
      Let(typeVars[i], LAMBDA typeVar :
      Let(getRepresentative(cs, typeVar), LAMBDA typeVarRep :
        IF ~Known(g, typeVarRep)
        THEN [g |-> lookupNode(cs, g, typeVarRep),
              complaint |-> "type-variable vector grows while verify iterates over it"]
        ELSE
          Let(getEquivalenceClass(cs, lookupNode(cs, g, typeVarRep), typeVarRep),
              LAMBDA g1 :
            IF g1.err # NoErr THEN [g |-> g1, complaint |-> g1.err]
            ELSE IF typeVar # typeVarRep
            THEN IF typeVar \notin Range(g1.Nodes[typeVarRep].EquivalenceClass)
                 THEN [g |-> g1, complaint |->
                         "type variable not present in its representative's equiv class"]
                 ELSE verify_classes(cs, g1, typeVars, i + 1)
            ELSE IF \E equiv \in Range(g1.Nodes[typeVarRep].EquivalenceClass) :
                       typeVar # getRepresentative(cs, equiv)
                 THEN [g |-> g1, complaint |->
                         "representative and an equivalent type variable's representative"]
                 ELSE verify_classes(cs, g1, typeVars, i + 1))))

\* The rest of verify, on the graph the first loop left.
verify_rest(cs, g) ==
    IF Len(g.TypeVariables) # Cardinality(DOMAIN g.Nodes)
    THEN "type variables vector and node map have different sizes"
    ELSE IF \E n \in DOMAIN g.Nodes : ~(g.Nodes[n].Index < Len(g.TypeVariables))
    THEN "out of bounds node index"
    ELSE IF \E n \in DOMAIN g.Nodes : n # At0(g.TypeVariables, g.Nodes[n].Index)
    THEN "node map provides wrong index into type variable vector"
    ELSE IF \E n \in DOMAIN g.Nodes : Node_verify(g.Nodes[n], n) # NoErr
    THEN Node_verify(g.Nodes[CHOOSE n \in DOMAIN g.Nodes :
                                Node_verify(g.Nodes[n], n) # NoErr],
                     CHOOSE n \in DOMAIN g.Nodes :
                         Node_verify(g.Nodes[n], n) # NoErr)
    ELSE
      Let(UNION {Range(g.Nodes[n].Constraints) : n \in Range(g.TypeVariables)},
          LAMBDA knownConstraints :
        IF \E c \in cs.constraints :
              ~(c \in knownConstraints \/ gatherReferencedTypeVars(c) = <<>>)
        THEN "constraint graph doesn't know about constraint"
        ELSE IF \E c \in cs.constraints :
                   \E t \in Range(gatherReferencedTypeVars(c)) : ~Known(g, t)
        THEN "type variable in constraint not known"
        ELSE IF \E c \in cs.constraints :
                   \E t \in Range(gatherReferencedTypeVars(c)) :
                       c \notin DOMAIN g.Nodes[t].ConstraintIndex
        THEN "type variable doesn't know about constraint"
        ELSE NoErr)

\* verify: [g |-> the graph after it, complaint |-> the complaint it aborts
\* with, NoErr when it returns].
verify(cs, g) ==
    Let(verify_classes(cs, g, g.TypeVariables, 1), LAMBDA r :
      IF r.complaint # NoErr THEN r
      ELSE [g |-> r.g, complaint |-> verify_rest(cs, r.g)])

\* ------------------------------------------------------------------ state

VARIABLES
    cs,      \* the constraint system: representatives, fixed types, constraints
    cg,      \* the constraint graph
    scopes,  \* the ConstraintGraphScope objects, by identity
    last,    \* the operation that produced this state
    steps    \* the number of operations so far

vars == <<cs, cg, scopes, last, steps>>

\* The constraint system before any union or binding.
InitCS ==
    [rep |-> [t \in TypeVars |-> t],
     fixed |-> [t \in TypeVars |-> NoType],
     constraints |-> {}]

ClosedScope ==
    [open |-> FALSE, ParentScope |-> NoScope, NumChanges |-> 0,
     savedCS |-> InitCS, savedNodes |-> <<>>, savedTypeVariables |-> <<>>,
     savedChanges |-> <<>>]

\* What is remembered of the last operation: for a scope's destruction, the
\* number of changes it undid and the graph as the scope found it; for a
\* connected-components query, the subset asked for and the results.
Step(op) ==
    [op |-> op, undone |-> 0, removedNodes |-> 0,
     savedNodes |-> <<>>, savedTypeVariables |-> <<>>,
     typeVar |-> 0, constraints |-> <<>>, complaint |-> NoErr,
     typeVarSubset |-> {}, typeVars |-> <<>>, components |-> <<>>,
     numComponents |-> 0, traversal |-> <<>>]

Init ==
    /\ cs = InitCS
    /\ cg = EmptyGraph
    /\ scopes = [s \in ScopeIds |-> ClosedScope]
    /\ last = Step("init")
    /\ steps = 0

Running == cg.err = NoErr /\ steps < MaxSteps

IsRep(c, t) == c.rep[t] = t

Unbound(c, t) == ~c.fixed[c.rep[t]].bound

\* The types a type variable may be bound to: no type variable of the type is
\* in typeVar's equivalence class or already bound.
FixedTypesFor(c, typeVar) ==
    {Type(tvs) : tvs \in
        {q \in TypeDef :
            \A i \in 1..Len(q) : c.rep[q[i]] # typeVar /\ Unbound(c, q[i])}}

\* The union of two equivalence classes: every member of nonRep's class now
\* reports rep.
Union(c, rep, nonRep) ==
    [c EXCEPT !.rep = [t \in TypeVars |-> IF c.rep[t] = nonRep THEN rep ELSE c.rep[t]]]

\* ---------------------------------------------------------------- actions

Lookup(typeVar) ==
    /\ Running
    /\ cg' = lookupNode(cs, cg, typeVar)
    /\ last' = Step("step")
    /\ steps' = steps + 1
    /\ UNCHANGED <<cs, scopes>>

AddConstraint(constraint) ==
    /\ Running
    /\ constraint \notin cs.constraints
    /\ cs' = [cs EXCEPT !.constraints = @ \cup {constraint}]
    /\ cg' = addConstraint(cs, cg, constraint)
    /\ last' = Step("step")
    /\ steps' = steps + 1
    /\ UNCHANGED scopes

RemoveConstraint(constraint) ==
    /\ Running
    /\ constraint \in cs.constraints
    /\ cs' = [cs EXCEPT !.constraints = @ \ {constraint}]
    /\ cg' = removeConstraint(cs, cg, constraint)
    /\ last' = Step("step")
    /\ steps' = steps + 1
    /\ UNCHANGED scopes

\* The constraint system unions two classes and tells the graph, naming the
\* pair in either order.
MergeNodes(typeVar1, typeVar2) ==
    /\ Running
    /\ typeVar1 # typeVar2
    /\ IsRep(cs, typeVar1) /\ IsRep(cs, typeVar2)
    /\ Unbound(cs, typeVar1) /\ Unbound(cs, typeVar2)
    /\ \E rep \in {typeVar1, typeVar2} :
         /\ cs' = Union(cs, rep, IF rep = typeVar1 THEN typeVar2 ELSE typeVar1)
         /\ cg' = mergeNodes(cs', cg, typeVar1, typeVar2)
    /\ last' = Step("step")
    /\ steps' = steps + 1
    /\ UNCHANGED scopes

\* The constraint system binds a representative and tells the graph, before
\* or after it stores the binding.
BindTypeVariable(typeVar, fixed, oracleFirst) ==
    /\ Running
    /\ IsRep(cs, typeVar) /\ Unbound(cs, typeVar)
    /\ fixed \in FixedTypesFor(cs, typeVar)
    /\ cs' = [cs EXCEPT !.fixed[typeVar] = fixed]
    /\ cg' = bindTypeVariable(IF oracleFirst THEN cs' ELSE cs, cg, typeVar, fixed)
    /\ last' = Step("step")
    /\ steps' = steps + 1
    /\ UNCHANGED scopes

\* The constraint system unions or binds type variables the graph has no
\* node for, without telling the graph; lookupNode catches up later.
OracleMerge(rep, nonRep) ==
    /\ Running
    /\ rep # nonRep
    /\ IsRep(cs, rep) /\ IsRep(cs, nonRep)
    /\ Unbound(cs, rep) /\ Unbound(cs, nonRep)
    /\ ~Known(cg, nonRep)
    /\ cs' = Union(cs, rep, nonRep)
    /\ last' = Step("step")
    /\ steps' = steps + 1
    /\ UNCHANGED <<cg, scopes>>

OracleBind(typeVar, fixed) ==
    /\ Running
    /\ IsRep(cs, typeVar) /\ Unbound(cs, typeVar)
    /\ ~Known(cg, typeVar)
    /\ fixed \in FixedTypesFor(cs, typeVar)
    /\ cs' = [cs EXCEPT !.fixed[typeVar] = fixed]
    /\ last' = Step("step")
    /\ steps' = steps + 1
    /\ UNCHANGED <<cg, scopes>>

OpenScope ==
    /\ Running
    /\ \E s \in ScopeIds :
         /\ ~scopes[s].open
         /\ \A r \in ScopeIds : ~scopes[r].open => s <= r
         /\ scopes' = [scopes EXCEPT ![s] =
              [open |-> TRUE, ParentScope |-> cg.ActiveScope,
               NumChanges |-> Len(cg.Changes), savedCS |-> cs,
               savedNodes |-> cg.Nodes,
               savedTypeVariables |-> cg.TypeVariables,
               savedChanges |-> cg.Changes]]
         /\ cg' = [cg EXCEPT !.ActiveScope = s]
    /\ last' = Step("step")
    /\ steps' = steps + 1
    /\ UNCHANGED cs

\* The innermost scope is destroyed; the constraint system restores its own
\* state as of the scope's construction.
CloseScope ==
    /\ Running
    /\ cg.ActiveScope # NoScope
    /\ steps' = steps + 1
    /\ LET s == cg.ActiveScope
       IN /\ cg' = Scope_destroy(cs, cg, scopes[s])
          /\ cs' = scopes[s].savedCS
          /\ scopes' = [scopes EXCEPT ![s] = ClosedScope]
          /\ last' = [Step("closeScope") EXCEPT
                        !.undone = Len(cg.Changes) - scopes[s].NumChanges,
                        !.removedNodes = Cardinality(
                            {i \in (scopes[s].NumChanges + 1)..Len(cg.Changes) :
                                cg.Changes[i].Kind = "AddedTypeVariable"}),
                        !.savedNodes = scopes[s].savedNodes,
                        !.savedTypeVariables = scopes[s].savedTypeVariables]

\* The solver asks for the connected components among a subset of the type
\* variables (all of them when the subset is empty).
ComputeConnectedComponents(typeVarSubset) ==
    /\ Running
    /\ steps' = steps + 1
    /\ \E r \in {computeConnectedComponents(cs, cg, typeVarSubset)} :
          /\ cg' = r.g
          /\ last' = [Step("computeConnectedComponents") EXCEPT
                        !.typeVarSubset = typeVarSubset,
                        !.typeVars = r.typeVars,
                        !.components = r.components,
                        !.numComponents = r.numComponents,
                        !.traversal = r.traversal]
    /\ UNCHANGED <<cs, scopes>>

\* The solver asks for the constraints that apply to a type variable.
GatherConstraints(typeVar) ==
    /\ Running
    /\ steps' = steps + 1
    /\ \E r \in {gatherConstraints(cs, cg, typeVar)} :
          /\ cg' = r.g
          /\ last' = [Step("gatherConstraints") EXCEPT
                        !.typeVar = typeVar,
                        !.savedNodes = cg.Nodes,
                        !.constraints = r.constraints]
    /\ UNCHANGED <<cs, scopes>>

\* A test or assert build verifies the graph.
Verify ==
    /\ Running
    /\ steps' = steps + 1
    /\ \E r \in {verify(cs, cg)} :
          /\ cg' = r.g
          /\ last' = [Step("verify") EXCEPT !.complaint = r.complaint]
    /\ UNCHANGED <<cs, scopes>>

\* The solver's operations on the graph and the constraint system's own
\* unions and bindings, without scopes.
Mutate ==
    \/ \E t \in TypeVars : Lookup(t)
    \/ \E c \in Constraints : AddConstraint(c)
    \/ \E c \in Constraints : RemoveConstraint(c)
    \/ \E t1, t2 \in TypeVars : MergeNodes(t1, t2)
    \/ \E t \in TypeVars : \E f \in FixedTypesFor(cs, t), b \in BOOLEAN :
          BindTypeVariable(t, f, b)
    \/ \E t1, t2 \in TypeVars : OracleMerge(t1, t2)
    \/ \E t \in TypeVars : \E f \in FixedTypesFor(cs, t) : OracleBind(t, f)

Next ==
    \/ Mutate
    \/ OpenScope
    \/ CloseScope

Spec == Init /\ [][Next]_vars

\* The graph driven without scopes.
SpecMutate == Init /\ [][Mutate]_vars

NextCC ==
    \/ Mutate
    \/ \E typeVarSubset \in SUBSET TypeVars :
          ComputeConnectedComponents(typeVarSubset)

SpecCC == Init /\ [][NextCC]_vars

\* The solver's calls alone: every union and binding of the constraint
\* system is reported to the graph.
NextSolver ==
    \/ \E t \in TypeVars : Lookup(t)
    \/ \E c \in Constraints : AddConstraint(c)
    \/ \E c \in Constraints : RemoveConstraint(c)
    \/ \E t1, t2 \in TypeVars : MergeNodes(t1, t2)
    \/ \E t \in TypeVars : \E f \in FixedTypesFor(cs, t), b \in BOOLEAN :
          BindTypeVariable(t, f, b)
    \/ OpenScope
    \/ CloseScope

SpecSolver == Init /\ [][NextSolver]_vars

\* The solver builds the graph in scopes and asks for the connected
\* components in between.
NextQuery ==
    \/ \E t \in TypeVars : Lookup(t)
    \/ \E c \in Constraints : AddConstraint(c)
    \/ \E t1, t2 \in TypeVars : MergeNodes(t1, t2)
    \/ \E t \in TypeVars : \E f \in FixedTypesFor(cs, t), b \in BOOLEAN :
          BindTypeVariable(t, f, b)
    \/ OpenScope
    \/ CloseScope
    \/ \E typeVarSubset \in SUBSET TypeVars :
          ComputeConnectedComponents(typeVarSubset)

SpecQuery == Init /\ [][NextQuery]_vars

\* Constraints are added and removed and type variables bound, inside and
\* outside scopes that are rolled back.
NextRollback ==
    \/ \E c \in Constraints : AddConstraint(c)
    \/ \E c \in Constraints : RemoveConstraint(c)
    \/ \E t \in TypeVars : \E f \in FixedTypesFor(cs, t), b \in BOOLEAN :
          BindTypeVariable(t, f, b)
    \/ OpenScope
    \/ CloseScope

SpecRollback == Init /\ [][NextRollback]_vars

NextGC ==
    \/ Mutate
    \/ \E typeVar \in TypeVars : GatherConstraints(typeVar)
    \/ Verify

SpecGC == Init /\ [][NextGC]_vars


\* ----------------------------------------------------------------- claims

\* What a client can observe of the nodes: which type variables have one,
\* each node's set of constraints, each adjacency's degree and fixed-binding
\* flag, and each representative's equivalence class as the accessor
\* returns it (seeded with the representative itself).
Observable(c, nodes) ==
    [n \in DOMAIN nodes |->
        [constraints |-> Range(nodes[n].Constraints),
         adjacency |-> [t \in DOMAIN nodes[n].AdjacencyInfo |->
                          <<nodes[n].AdjacencyInfo[t].NumConstraints,
                            nodes[n].AdjacencyInfo[t].FixedBinding>>],
         class |-> IF c.rep[n] # n THEN <<>>
                   ELSE IF nodes[n].EquivalenceClass = <<>> THEN <<n>>
                   ELSE nodes[n].EquivalenceClass]]

\* C1: when a scope is closed, the undo completes and the registered nodes,
\* every node's constraints, every adjacency's degree and flag and every
\* representative's equivalence class are what they were when the scope
\* was opened.
C1_ScopeExactness ==
    last.op = "closeScope" =>
        /\ cg.err = NoErr
        /\ Observable(cs, cg.Nodes) = Observable(cs, last.savedNodes)

\* A scope that opened on a non-empty graph and undid several changes, among
\* them the creation of a node, has been closed.
C1_Witness ==
    /\ last.op = "closeScope"
    /\ last.undone >= 3
    /\ last.removedNodes >= 1
    /\ last.savedNodes # <<>>
    /\ cg.err = NoErr

\* The type variables that occur anywhere in a constraint.
RECURSIVE MentionedIn(_)
MentionedIn(c) ==
    Range(c.First) \cup Range(c.Second) \cup Range(c.Base)
    \cup UNION {MentionedIn(c.Nested[i]) : i \in 1..Len(c.Nested)}

Mentions == [c \in Constraints |-> MentionedIn(ConstraintDef[c])]

SharedConstraints(u, v) ==
    {c \in cs.constraints : {u, v} \subseteq Mentions[c]}

\* The degree node u records towards v; none when u has no node or no
\* adjacency information for v.
Degree(u, v) ==
    IF Known(cg, u) /\ v \in DOMAIN cg.Nodes[u].AdjacencyInfo
    THEN cg.Nodes[u].AdjacencyInfo[v].NumConstraints
    ELSE 0

\* C3: for every pair of distinct type variables, each one's degree towards
\* the other is the number of live constraints that mention both.
C3_AdjacencySymmetry ==
    cg.err = NoErr =>
        \A u, v \in TypeVars :
            u # v => /\ Degree(u, v) = Cardinality(SharedConstraints(u, v))
                     /\ Degree(u, v) = Degree(v, u)

\* Two live constraints share a pair of type variables, and another pair
\* shares one.
C3_Witness ==
    /\ cg.err = NoErr
    /\ \E u, v \in TypeVars : u # v /\ Degree(u, v) = 2
    /\ \E u, v \in TypeVars : u # v /\ Degree(u, v) = 1

\* C10: the node map and the type-variable vector agree: same size, every
\* node's index is in range and names its own slot, and every slot holds a
\* type variable with a node.
C10_RegistryAgrees ==
    cg.err = NoErr =>
        /\ Len(cg.TypeVariables) = Cardinality(DOMAIN cg.Nodes)
        /\ \A n \in DOMAIN cg.Nodes :
              /\ cg.Nodes[n].Index < Len(cg.TypeVariables)
              /\ At0(cg.TypeVariables, cg.Nodes[n].Index) = n
        /\ \A i \in 1..Len(cg.TypeVariables) : Known(cg, cg.TypeVariables[i])

\* A scope has been closed that removed a node and left others registered.
C10_Witness ==
    /\ cg.err = NoErr
    /\ last.op = "closeScope"
    /\ last.removedNodes >= 1
    /\ Len(cg.TypeVariables) >= 2


\* A node's constraint and adjacency bookkeeping, positions included.
Bookkeeping(node) ==
    [Constraints |-> node.Constraints,
     ConstraintIndex |-> node.ConstraintIndex,
     Adjacencies |-> node.Adjacencies,
     AdjacencyInfo |-> node.AdjacencyInfo]

\* The graph after addConstraint(constraint); removeConstraint(constraint).
AddThenRemove(constraint) ==
    removeConstraint(cs, addConstraint(cs, cg, constraint), constraint)

\* The graph after looking up, in order, the type variables a constraint
\* references.
RECURSIVE lookupAll(_, _, _)
lookupAll(g, typeVars, i) ==
    IF i > Len(typeVars) THEN g
    ELSE lookupAll(lookupNode(cs, g, typeVars[i]), typeVars, i + 1)

\* C2 as stated: adding and then removing a constraint that is not in the
\* graph leaves every node that existed before with its constraint sequence,
\* constraint index, adjacency sequence and adjacency information.
C2_RoundTripRestoresNodes ==
    cg.err = NoErr =>
        \A c \in Constraints \ cs.constraints :
            LET g2 == AddThenRemove(c)
            IN /\ g2.err = NoErr
               /\ \A n \in DOMAIN cg.Nodes :
                     Bookkeeping(g2.Nodes[n]) = Bookkeeping(cg.Nodes[n])

\* C2, amended: the round trip completes and leaves the nodes, the old and
\* the newly created ones, exactly as looking up the constraint's type
\* variables would; when all of them had nodes already, that is the graph
\* before the add.
C2_RoundTripIsLookup ==
    cg.err = NoErr =>
        \A c \in Constraints \ cs.constraints :
            LET g2 == AddThenRemove(c)
                g3 == lookupAll(cg, gatherReferencedTypeVars(c), 1)
            IN /\ g2.err = NoErr
               /\ g2.Nodes = g3.Nodes
               /\ g2.TypeVariables = g3.TypeVariables
               /\ (Range(gatherReferencedTypeVars(c)) \subseteq DOMAIN cg.Nodes
                     => g2.Nodes = cg.Nodes)

\* There is a constraint to add whose type variables all have nodes, one of
\* them already adjacent to another and one not: the round trip bumps an
\* existing adjacency and creates and deletes another.
C2_Witness ==
    /\ cg.err = NoErr
    /\ \E c \in Constraints \ cs.constraints :
         LET refs == Range(gatherReferencedTypeVars(c))
         IN /\ refs \subseteq DOMAIN cg.Nodes
            /\ \E u, v \in refs : u # v /\ Degree(u, v) = 1
            /\ \E u, v \in refs : u # v /\ v \notin DOMAIN cg.Nodes[u].AdjacencyInfo
            /\ AddThenRemove(c).Nodes = cg.Nodes
            /\ addConstraint(cs, cg, c).Nodes # cg.Nodes


\* The equivalence class the graph holds for a type variable: its node's
\* class, which starts as the type variable alone.
ClassOf(g, typeVar) ==
    IF Known(g, typeVar) /\ g.Nodes[typeVar].EquivalenceClass # <<>>
    THEN g.Nodes[typeVar].EquivalenceClass
    ELSE <<typeVar>>

Count(s, x) == Cardinality({i \in 1..Len(s) : s[i] = x})

\* The constraint system after the union of two classes and the graph after
\* the mergeNodes call that reports it.
Merged(typeVar1, typeVar2, rep) ==
    Let(Union(cs, rep, IF rep = typeVar1 THEN typeVar2 ELSE typeVar1),
        LAMBDA cs2 : [cs |-> cs2, g |-> mergeNodes(cs2, cg, typeVar1, typeVar2)])

\* C4: after mergeNodes(v1, v2) for two classes the constraint system has
\* just united, whether or not v1 and v2 have nodes, the call completes and
\* the representative's equivalence class holds every member of either
\* variable's class before the merge exactly once.
C4_MergeKeepsEachMemberOnce ==
    cg.err = NoErr =>
        \A typeVar1, typeVar2 \in TypeVars :
            (/\ typeVar1 # typeVar2
             /\ IsRep(cs, typeVar1) /\ IsRep(cs, typeVar2)
             /\ Unbound(cs, typeVar1) /\ Unbound(cs, typeVar2))
            => \A rep \in {typeVar1, typeVar2} :
                 LET m == Merged(typeVar1, typeVar2, rep)
                 IN /\ m.g.err = NoErr
                    /\ \A member \in Range(ClassOf(cg, typeVar1))
                                      \cup Range(ClassOf(cg, typeVar2)) :
                          Count(ClassOf(m.g, rep), member) = 1

ComponentsReturned ==
    last.op = "computeConnectedComponents" /\ cg.err = NoErr

Returned == Range(last.typeVars)

\* The component index returned with a type variable, and the slot the type
\* variable has in the graph's vector.
ReturnedComponent(v) ==
    last.components[CHOOSE i \in 1..Len(last.typeVars) : last.typeVars[i] = v]

Slot(v) == CHOOSE i \in 1..Len(cg.TypeVariables) : cg.TypeVariables[i] = v

FixedBindingBetween(u, v) ==
    /\ v \in DOMAIN cg.Nodes[u].AdjacencyInfo
    /\ cg.Nodes[u].AdjacencyInfo[v].FixedBinding

\* Two type variables with nodes share a live constraint, are each other's
\* fixed binding, or are in one equivalence class of the constraint system.
Linked(u, v) ==
    /\ u # v
    /\ Known(cg, u) /\ Known(cg, v)
    /\ \/ SharedConstraints(u, v) # {}
       \/ FixedBindingBetween(u, v) \/ FixedBindingBetween(v, u)
       \/ cs.rep[u] = cs.rep[v]

\* The type variables a chain of links reaches from a set of them, links
\* being the set of linked pairs.
RECURSIVE ReachIn(_, _)
ReachIn(links, set) ==
    LET more == set \cup {v \in TypeVars : \E u \in set : <<u, v>> \in links}
    IN IF more = set THEN set ELSE ReachIn(links, more)

\* For each type variable, those a chain of links connects it to.
Reach ==
    LET links == {p \in TypeVars \X TypeVars : Linked(p[1], p[2])}
    IN [u \in TypeVars |-> ReachIn(links, {u})]

Requested(v) == last.typeVarSubset = {} \/ v \in last.typeVarSubset

\* C5 as stated: for a non-empty subset, the type variables returned are
\* the requested ones without a fixed type, each once.
C5_ReturnsRequestedUnfixed ==
    (ComponentsReturned /\ last.typeVarSubset # {}) =>
        /\ Returned = {v \in last.typeVarSubset : Unbound(cs, v)}
        /\ Len(last.typeVars) = Cardinality(Returned)

\* C5, amended: for a non-empty subset, every requested type variable that
\* has a node and no fixed type is returned; every type variable returned
\* has a node and is connected to (or is) a requested one without a fixed
\* type; and each is returned once, with one component index.
C5_ReturnsComponentsOfRequested ==
    (ComponentsReturned /\ last.typeVarSubset # {}) =>
        /\ \A v \in last.typeVarSubset :
              (Known(cg, v) /\ Unbound(cs, v)) => v \in Returned
        /\ LET reach == Reach
           IN \A v \in Returned :
                 /\ Known(cg, v)
                 /\ \E m \in reach[v] : m \in last.typeVarSubset /\ Unbound(cs, m)
        /\ Len(last.typeVars) = Cardinality(Returned)
        /\ Len(last.components) = Len(last.typeVars)

\* A query for a non-empty subset has returned a type variable that was not
\* asked for and one with a fixed type, and left out a requested one.
C5_Witness ==
    /\ ComponentsReturned
    /\ last.typeVarSubset # {}
    /\ Returned \ last.typeVarSubset # {}
    /\ \E v \in Returned : ~Unbound(cs, v)
    /\ \E v \in last.typeVarSubset : Known(cg, v) /\ v \notin Returned

\* C6: two linked type variables are both left out or both returned with
\* the same component index, and two returned type variables have the same
\* component index only if a chain of links connects them.
C6_ComponentsAreConnectivity ==
    ComponentsReturned =>
        /\ \A u, v \in TypeVars :
              Linked(u, v) =>
                 \/ u \notin Returned /\ v \notin Returned
                 \/ /\ u \in Returned /\ v \in Returned
                    /\ ReturnedComponent(u) = ReturnedComponent(v)
        /\ LET reach == Reach
           IN \A u, v \in Returned :
                 ReturnedComponent(u) = ReturnedComponent(v) => v \in reach[u]

\* Two type variables linked only by their equivalence class were returned
\* in one component and a third type variable in another.
C6_Witness ==
    /\ ComponentsReturned
    /\ \E u, v, w \in Returned :
          /\ u # v /\ cs.rep[u] = cs.rep[v]
          /\ SharedConstraints(u, v) = {}
          /\ ReturnedComponent(u) = ReturnedComponent(v)
          /\ ReturnedComponent(w) # ReturnedComponent(u)

\* C7: the type variables connected to one with a node are all returned
\* when one of them has no fixed type and is requested (any will do when the
\* subset is empty), and none of them is returned otherwise.
C7_ReportedIffLiveMember ==
    ComponentsReturned =>
        LET reach == Reach
        IN \A u \in DOMAIN cg.Nodes :
              IF \E m \in reach[u] : Unbound(cs, m) /\ Requested(m)
              THEN reach[u] \subseteq Returned
              ELSE reach[u] \cap Returned = {}

\* One query left out a component whose only member has a fixed type, and
\* one with no requested member, and returned a third.
C7_Witness ==
    /\ ComponentsReturned
    /\ last.typeVarSubset # {}
    /\ Returned # {}
    /\ \E u \in DOMAIN cg.Nodes : Reach[u] = {u} /\ ~Unbound(cs, u)
    /\ \E u \in DOMAIN cg.Nodes :
          /\ \A m \in Reach[u] : Unbound(cs, m)
          /\ u \notin Returned

\* The component the traversal assigned to a returned type variable.
TraversalComponent(v) == last.traversal[Slot(v)]

\* C8: the component indices returned are exactly 0..n-1 for the returned
\* count n; the two vectors have one length; the type variables are in the
\* order of the graph's vector; and each component index is the rank of the
\* type variable's traversal component among those that were returned.
C8_DenseRenumbering ==
    ComponentsReturned =>
        /\ Range(last.components) = 0..(last.numComponents - 1)
        /\ Len(last.components) = Len(last.typeVars)
        /\ \A i, j \in 1..Len(last.typeVars) :
              i < j => Slot(last.typeVars[i]) < Slot(last.typeVars[j])
        /\ \A v \in Returned :
              ReturnedComponent(v) =
                Cardinality({TraversalComponent(w) : w \in Returned}
                            \cap 0..(TraversalComponent(v) - 1))

\* The first component of the traversal was left out and two later ones
\* were returned: every entry was renumbered and moved.
C8_Witness ==
    /\ ComponentsReturned
    /\ last.numComponents >= 2
    /\ Len(cg.TypeVariables) > Len(last.typeVars)
    /\ cg.TypeVariables[1] \notin Returned


\* Every node's stored index names the slot that holds its type variable.
IndexesPointHome(g) ==
    \A n \in DOMAIN g.Nodes :
        /\ g.Nodes[n].Index < Len(g.TypeVariables)
        /\ At0(g.TypeVariables, g.Nodes[n].Index) = n

\* C11: removing a node that is not in the last slot of a registry of two or
\* more nodes completes and leaves every remaining node's stored index
\* pointing at its own slot.
C11_RemoveReindexesMoved ==
    (cg.err = NoErr /\ IndexesPointHome(cg)) =>
        \A typeVar \in DOMAIN cg.Nodes :
            (/\ Len(cg.TypeVariables) >= 2
             /\ cg.Nodes[typeVar].Index < Len(cg.TypeVariables) - 1)
            => LET g2 == removeNode(cg, typeVar)
               IN g2.err = NoErr /\ IndexesPointHome(g2)


\* C12: every non-representative type variable with a node is in the
\* equivalence class of its representative, which has a node, and in the
\* class of no other representative; and every member of a
\* representative's class reports that representative.
C12_ClassesMatchRepresentatives ==
    cg.err = NoErr =>
        \A v \in DOMAIN cg.Nodes :
            /\ ~IsRep(cs, v) =>
                  /\ Known(cg, cs.rep[v])
                  /\ v \in Range(ClassOf(cg, cs.rep[v]))
                  /\ \A r \in DOMAIN cg.Nodes :
                        (IsRep(cs, r) /\ r # cs.rep[v]) =>
                            v \notin Range(ClassOf(cg, r))
            /\ IsRep(cs, v) =>
                  \A member \in Range(ClassOf(cg, v)) : cs.rep[member] = v

\* A representative's class holds three members, one of which was a
\* representative with a class of its own before a second merge.
C12_Witness ==
    /\ cg.err = NoErr
    /\ \E r, v \in DOMAIN cg.Nodes :
          /\ IsRep(cs, r) /\ ~IsRep(cs, v)
          /\ Cardinality(Range(ClassOf(cg, r))) = 3
          /\ Len(cg.Nodes[v].EquivalenceClass) >= 2


\* A node's constraint sequence and index agree, and so do its neighbour
\* sequence and adjacency map.
SequencesMatchMaps(node) ==
    /\ Len(node.Constraints) = Cardinality(DOMAIN node.ConstraintIndex)
    /\ \A c \in DOMAIN node.ConstraintIndex :
          /\ node.ConstraintIndex[c] < Len(node.Constraints)
          /\ At0(node.Constraints, node.ConstraintIndex[c]) = c
    /\ Len(node.Adjacencies) = Cardinality(DOMAIN node.AdjacencyInfo)
    /\ \A t \in DOMAIN node.AdjacencyInfo :
          /\ node.AdjacencyInfo[t].Index < Len(node.Adjacencies)
          /\ At0(node.Adjacencies, node.AdjacencyInfo[t].Index) = t

\* C13: in every node the constraint sequence and the constraint index have
\* one size and every indexed position holds its constraint, and the
\* neighbour sequence and the adjacency map have one size and every stored
\* position holds its neighbour.
C13_SequencesMatchMaps ==
    cg.err = NoErr => \A n \in DOMAIN cg.Nodes : SequencesMatchMaps(cg.Nodes[n])

\* A live constraint is about to be removed from the middle of a node's
\* constraint sequence, and with it an adjacency from the middle of the
\* node's neighbour sequence: both removals swap with the last element.
C13_Witness ==
    /\ cg.err = NoErr
    /\ steps < MaxSteps
    /\ \E c \in cs.constraints : \E n \in DOMAIN cg.Nodes :
          /\ c \in DOMAIN cg.Nodes[n].ConstraintIndex
          /\ cg.Nodes[n].ConstraintIndex[c] < Len(cg.Nodes[n].Constraints) - 1
          /\ \E t \in DOMAIN cg.Nodes[n].AdjacencyInfo :
                /\ t \in Mentions[c]
                /\ cg.Nodes[n].AdjacencyInfo[t].Index
                      < Len(cg.Nodes[n].Adjacencies) - 1
                /\ cg.Nodes[n].AdjacencyInfo[t].NumConstraints = 1
                /\ ~cg.Nodes[n].AdjacencyInfo[t].FixedBinding
          /\ LET g2 == removeConstraint(cs, cg, c)
             IN /\ g2.err = NoErr
                /\ Len(g2.Nodes[n].Constraints) >= 1
                /\ Len(g2.Nodes[n].Adjacencies) >= 1
                /\ Len(g2.Nodes[n].Adjacencies) < Len(cg.Nodes[n].Adjacencies)


\* C14: a node has an adjacency entry for a neighbour exactly when the
\* entry's constraint count is positive or its fixed-binding flag is set;
\* no entry with a zero count and a cleared flag is left behind, and every
\* pair that shares a live constraint has its entry.
C14_NoEmptyAdjacency ==
    cg.err = NoErr =>
        \A n \in DOMAIN cg.Nodes : \A t \in TypeVars \ {n} :
            /\ t \in DOMAIN cg.Nodes[n].AdjacencyInfo
                  <=> (Degree(n, t) > 0 \/ FixedBindingBetween(n, t))
            /\ SharedConstraints(n, t) # {}
                  => t \in DOMAIN cg.Nodes[n].AdjacencyInfo

\* One entry is kept by its flag alone, and the removal of a live constraint
\* is about to take another entry's count to zero and delete it.
C14_Witness ==
    /\ cg.err = NoErr
    /\ steps < MaxSteps
    /\ \E n \in DOMAIN cg.Nodes : \E t \in DOMAIN cg.Nodes[n].AdjacencyInfo :
          /\ cg.Nodes[n].AdjacencyInfo[t].NumConstraints = 0
          /\ cg.Nodes[n].AdjacencyInfo[t].FixedBinding
    /\ \E c \in cs.constraints : \E n \in DOMAIN cg.Nodes :
          \E t \in DOMAIN cg.Nodes[n].AdjacencyInfo :
              /\ t \in Mentions[c]
              /\ n \in Mentions[c]
              /\ cg.Nodes[n].AdjacencyInfo[t].NumConstraints = 1
              /\ ~cg.Nodes[n].AdjacencyInfo[t].FixedBinding
              /\ LET g2 == removeConstraint(cs, cg, c)
                 IN /\ g2.err = NoErr
                    /\ t \notin DOMAIN g2.Nodes[n].AdjacencyInfo


\* C15: a node's constraint list holds a constraint exactly when the
\* constraint is in the graph (added and not since removed or rolled back)
\* and references the node's type variable; it is then listed once, and the
\* type variables a live constraint references all have nodes.
C15_ConstraintListsAreLive ==
    cg.err = NoErr =>
        \A c \in Constraints :
            LET referenced == Range(gatherReferencedTypeVars(c))
            IN /\ c \in cs.constraints => referenced \subseteq DOMAIN cg.Nodes
               /\ \A n \in DOMAIN cg.Nodes :
                     Count(cg.Nodes[n].Constraints, c) =
                         IF c \in cs.constraints /\ n \in referenced
                         THEN 1 ELSE 0

\* A node lists two constraints, one of them added inside the active scope,
\* and closing the scope is about to roll that one back and keep the other.
C15_Witness ==
    /\ cg.err = NoErr
    /\ steps < MaxSteps
    /\ cg.ActiveScope # NoScope
    /\ \E i \in (scopes[cg.ActiveScope].NumChanges + 1)..Len(cg.Changes) :
          /\ cg.Changes[i].Kind = "AddedConstraint"
          /\ \E n \in DOMAIN cg.Nodes : \E kept \in cs.constraints :
                /\ kept # cg.Changes[i].TheConstraint
                /\ {kept, cg.Changes[i].TheConstraint}
                      \subseteq Range(cg.Nodes[n].Constraints)
                /\ LET g2 == Scope_destroy(cs, cg, scopes[cg.ActiveScope])
                   IN /\ g2.err = NoErr
                      /\ Known(g2, n)
                      /\ g2.Nodes[n].Constraints = <<kept>>


\* Node u of graph g has its fixed-binding flag set towards v.
FixedBindingIn(g, u, v) ==
    /\ Known(g, u)
    /\ v \in DOMAIN g.Nodes[u].AdjacencyInfo
    /\ g.Nodes[u].AdjacencyInfo[v].FixedBinding

\* The records a call appended to the change log of graph g, g2 being the
\* graph the call returned.
Appended(g, g2) == SubSeq(g2.Changes, Len(g.Changes) + 1, Len(g2.Changes))

\* The lookup of a type variable without a node, for the graph as it is.
Created(typeVar) ==
    LET g2 == lookupNode(cs, cg, typeVar)
        typeVarRep == getRepresentative(cs, typeVar)
        fixed == getFixedType(cs, typeVar)
        log == Appended(cg, g2)
    IN /\ g2.err = NoErr
       /\ Known(g2, typeVar)
       /\ typeVarRep # typeVar =>
             /\ Known(g2, typeVarRep)
             /\ typeVar \in Range(g2.Nodes[typeVarRep].EquivalenceClass)
       /\ (typeVarRep = typeVar /\ fixed.bound /\ hasTypeVariable(fixed)) =>
             \A other \in Range(fixed.tvs) :
                 /\ FixedBindingIn(g2, typeVar, other)
                 /\ FixedBindingIn(g2, other, typeVar)
       /\ cg.ActiveScope = NoScope => log = <<>>
       /\ cg.ActiveScope # NoScope =>
             /\ SubSeq(g2.Changes, 1, Len(cg.Changes)) = cg.Changes
             /\ log # <<>>
             /\ log[1] = addedTypeVariable(typeVar)
             /\ typeVarRep # typeVar =>
                   \E i \in 2..Len(log) :
                       /\ log[i].Kind = "ExtendedEquivalenceClass"
                       /\ log[i].TypeVar = typeVarRep
             /\ (typeVarRep = typeVar /\ fixed.bound /\ hasTypeVariable(fixed)) =>
                   \E i \in 2..Len(log) : log[i] = boundTypeVariable(typeVar, fixed)

\* C16: when lookupNode creates a node for a type variable whose
\* representative is another one, the representative has a node on return
\* and its class holds the type variable; when the type variable is its own
\* representative and has a fixed type with type variables, it and each of
\* them are flagged as fixed bindings of each other; with a scope active the
\* AddedTypeVariable record comes before the records of that merge or bind.
C16_CreationCatchesUp ==
    cg.err = NoErr => \A typeVar \in TypeVars \ DOMAIN cg.Nodes : Created(typeVar)

\* With a scope active, one type variable without a node reports another
\* representative and one without a node has a fixed type with type
\* variables.
C16_Witness ==
    /\ cg.err = NoErr
    /\ cg.ActiveScope # NoScope
    /\ \E typeVar \in TypeVars \ DOMAIN cg.Nodes :
          /\ ~IsRep(cs, typeVar)
          /\ Created(typeVar)
    /\ \E typeVar \in TypeVars \ DOMAIN cg.Nodes :
          /\ IsRep(cs, typeVar)
          /\ hasTypeVariable(getFixedType(cs, typeVar))
          /\ Created(typeVar)


\* The graph after the constraint system binds typeVar to fixed and calls
\* bindTypeVariable, the binding stored before the call or after it.
Bound(typeVar, fixed, oracleFirst) ==
    bindTypeVariable(IF oracleFirst
                     THEN [cs EXCEPT !.fixed[typeVar] = fixed]
                     ELSE cs,
                     cg, typeVar, fixed)

\* C17: for every type variable and every fixed type with type variables the
\* constraint system may bind it to, bindTypeVariable completes without a
\* failed assertion and leaves the type variable and each type variable of
\* the fixed type flagged as fixed bindings of each other, whether or not the
\* type variable has a node and whether or not the constraint system reports
\* the fixed type already.
C17_BindSetsMutualFlags ==
    cg.err = NoErr =>
        \A typeVar \in TypeVars :
            (IsRep(cs, typeVar) /\ Unbound(cs, typeVar)) =>
                \A fixed \in FixedTypesFor(cs, typeVar) : \A oracleFirst \in BOOLEAN :
                    hasTypeVariable(fixed) =>
                        LET g2 == Bound(typeVar, fixed, oracleFirst)
                        IN /\ g2.err = NoErr
                           /\ \A other \in Range(fixed.tvs) :
                                 /\ FixedBindingIn(g2, typeVar, other)
                                 /\ FixedBindingIn(g2, other, typeVar)


\* The count and flag node u of graph g holds towards v; none when u has no
\* node or no adjacency entry for v.
NoEntry == <<0, FALSE, FALSE>>

EntryIn(g, u, v) ==
    IF Known(g, u) /\ v \in DOMAIN g.Nodes[u].AdjacencyInfo
    THEN <<g.Nodes[u].AdjacencyInfo[v].NumConstraints,
           g.Nodes[u].AdjacencyInfo[v].FixedBinding, TRUE>>
    ELSE NoEntry

\* unbindTypeVariable after a bindTypeVariable that completed: an entry with
\* a positive count stays with its count and a cleared flag, an entry with a
\* zero count is deleted, and every entry of the graph is as before the bind.
UnbindKeepsCounts(typeVar, fixed, oracleFirst) ==
    LET g1 == Bound(typeVar, fixed, oracleFirst)
        g2 == unbindTypeVariable(IF oracleFirst
                                 THEN [cs EXCEPT !.fixed[typeVar] = fixed]
                                 ELSE cs,
                                 g1, typeVar, fixed)
    IN g1.err = NoErr =>
         /\ g2.err = NoErr
         /\ \A other \in Range(fixed.tvs) :
               /\ EntryIn(g1, typeVar, other)
                     = <<EntryIn(cg, typeVar, other)[1], TRUE, TRUE>>
               /\ EntryIn(g2, typeVar, other) =
                     IF EntryIn(g1, typeVar, other)[1] > 0
                     THEN <<EntryIn(g1, typeVar, other)[1], FALSE, TRUE>>
                     ELSE NoEntry
         /\ \A u, v \in TypeVars : EntryIn(g2, u, v) = EntryIn(cg, u, v)

\* removeConstraint of a live constraint: an entry whose flag is set stays,
\* with its flag and one count less.
RemoveKeepsFlags(c) ==
    LET g2 == removeConstraint(cs, cg, c)
    IN /\ g2.err = NoErr
       /\ \A u, v \in Mentions[c] :
             (u # v /\ EntryIn(cg, u, v)[2]) =>
                 EntryIn(g2, u, v) = <<EntryIn(cg, u, v)[1] - 1, TRUE, TRUE>>

\* C18: the fixed-binding flag and the constraint count of an adjacency do
\* not depend on each other: unbindTypeVariable keeps an entry and its count
\* when the count is positive and deletes the entry only when the count is
\* zero, removing the last shared constraint keeps an entry whose flag is
\* set, and bindTypeVariable followed by unbindTypeVariable with the same
\* arguments restores every entry's presence, count and flag.
C18_FlagAndCountIndependent ==
    cg.err = NoErr =>
        /\ \A typeVar \in TypeVars :
              (IsRep(cs, typeVar) /\ Unbound(cs, typeVar)) =>
                  \A fixed \in FixedTypesFor(cs, typeVar) :
                      hasTypeVariable(fixed) =>
                          \A oracleFirst \in BOOLEAN :
                              UnbindKeepsCounts(typeVar, fixed, oracleFirst)
        /\ \A c \in cs.constraints : RemoveKeepsFlags(c)

\* One pair's entry has its flag set and a count of one, so that removing
\* the constraint the pair shares leaves the flag alone, and a type variable
\* can be bound to a type with a neighbour it shares a constraint with, so
\* that unbinding leaves the count alone.
C18_Witness ==
    /\ cg.err = NoErr
    /\ \E u, v \in TypeVars : \E c \in cs.constraints :
          /\ {u, v} \subseteq Mentions[c] /\ u # v
          /\ EntryIn(cg, u, v) = <<1, TRUE, TRUE>>
          /\ EntryIn(removeConstraint(cs, cg, c), u, v) = <<0, TRUE, TRUE>>
    /\ \E typeVar \in TypeVars :
          /\ IsRep(cs, typeVar) /\ Unbound(cs, typeVar)
          /\ \E fixed \in FixedTypesFor(cs, typeVar) : \E other \in Range(fixed.tvs) :
                /\ EntryIn(cg, typeVar, other)[1] > 0
                /\ Bound(typeVar, fixed, FALSE).err = NoErr


\* The graph is, to an observer, the graph a scope found when it opened, the
\* change log is the log of that moment and the scope's parent is active.
RestoredTo(g, scope) ==
    /\ g.err = NoErr
    /\ Observable(scope.savedCS, g.Nodes)
          = Observable(scope.savedCS, scope.savedNodes)
    /\ g.TypeVariables = scope.savedTypeVariables
    /\ g.Changes = scope.savedChanges
    /\ g.ActiveScope = scope.ParentScope

\* The inner scope is destroyed and then the outer one, the constraint
\* system restoring its own state after each.
InnerThenOuter(inner, outer) ==
    LET g2 == Scope_destroy(cs, cg, inner)
        g3 == Scope_destroy(inner.savedCS, g2, outer)
    IN /\ RestoredTo(g2, inner)
       /\ RestoredTo(g3, outer)

\* C19: with one scope nested in another, closing the inner scope leaves
\* the graph as it was when the inner scope opened, leaves the records the
\* outer scope had taken before in the log untouched and makes the outer
\* scope active again; closing the outer scope afterwards leaves the graph as
\* it was when the outer scope opened.
C19_NestedScopes ==
    cg.err = NoErr =>
        /\ \A s \in ScopeIds :
              scopes[s].open =>
                  /\ Len(cg.Changes) >= scopes[s].NumChanges
                  /\ SubSeq(cg.Changes, 1, scopes[s].NumChanges)
                        = scopes[s].savedChanges
        /\ (cg.ActiveScope # NoScope
             /\ scopes[cg.ActiveScope].ParentScope # NoScope) =>
                InnerThenOuter(scopes[cg.ActiveScope],
                               scopes[scopes[cg.ActiveScope].ParentScope])

\* The outer scope took records before the inner scope opened, the inner
\* scope took records of its own, among them the creation of a node, and
\* both are closed in turn.
C19_Witness ==
    /\ cg.err = NoErr
    /\ cg.ActiveScope # NoScope
    /\ scopes[cg.ActiveScope].ParentScope # NoScope
    /\ LET inner == scopes[cg.ActiveScope]
           outer == scopes[inner.ParentScope]
       IN /\ inner.NumChanges > outer.NumChanges
          /\ Len(cg.Changes) > inner.NumChanges + 1
          /\ DOMAIN cg.Nodes # DOMAIN inner.savedNodes
          /\ inner.savedNodes # outer.savedNodes
          /\ InnerThenOuter(inner, outer)


Reverse(s) == [i \in 1..Len(s) |-> s[Len(s) + 1 - i]]

\* What the inverse of a change needs of the graph it is applied to: the
\* constraint to remove is listed and every adjacency to decrement has a
\* positive count, the constraint to re-add is not listed, the flags to clear
\* are set, the class to truncate is long enough, the node to remove exists
\* and no other node has an adjacency for it or has it in its class.
UndoPrecondition(g, change) ==
    CASE change.Kind = "AddedConstraint" ->
           LET referenced == Range(gatherReferencedTypeVars(change.TheConstraint))
           IN \A t \in referenced :
                 /\ Known(g, t)
                 /\ change.TheConstraint \in DOMAIN g.Nodes[t].ConstraintIndex
                 /\ \A other \in referenced \ {t} : EntryIn(g, t, other)[1] > 0
      [] change.Kind = "RemovedConstraint" ->
           \A t \in Range(gatherReferencedTypeVars(change.TheConstraint)) :
               Known(g, t) =>
                   change.TheConstraint \notin DOMAIN g.Nodes[t].ConstraintIndex
      [] change.Kind = "BoundTypeVariable" ->
           \A other \in Range(change.FixedType.tvs) :
               /\ FixedBindingIn(g, change.TypeVar, other)
               /\ FixedBindingIn(g, other, change.TypeVar)
      [] change.Kind = "ExtendedEquivalenceClass" ->
           /\ Known(g, change.TypeVar)
           /\ change.PrevSize <= Len(g.Nodes[change.TypeVar].EquivalenceClass)
      [] change.Kind = "AddedTypeVariable" ->
           /\ Known(g, change.TypeVar)
           /\ \A n \in (DOMAIN g.Nodes) \ {change.TypeVar} :
                 /\ change.TypeVar \notin DOMAIN g.Nodes[n].AdjacencyInfo
                 /\ change.TypeVar \notin Range(g.Nodes[n].EquivalenceClass)

\* The destructor's loop, step by step: the changes it undoes, in the order
\* it undoes them, each with whether its inverse found its precondition and
\* the assertion the inverse failed, if any.
RECURSIVE Scope_undone(_, _, _)
Scope_undone(c, g, NumChanges) ==
    IF g.err # NoErr \/ Len(g.Changes) <= NumChanges THEN <<>>
    ELSE Let(g.Changes[Len(g.Changes)], LAMBDA change :
         Let(Change_undo(c, g, change), LAMBDA g1 :
           << [change |-> change, met |-> UndoPrecondition(g, change),
               err |-> g1.err] >>
           \o Scope_undone(c,
                           IF g1.err # NoErr THEN g1
                           ELSE [g1 EXCEPT !.Changes = PopBack(@)],
                           NumChanges)))

\* The destructor of a scope undoes the changes appended since the scope
\* opened, last first, each inverse finding its precondition, and completes.
UndoneInReverse(scope) ==
    LET undone == Scope_undone(cs, cg, scope.NumChanges)
        appended == SubSeq(cg.Changes, scope.NumChanges + 1, Len(cg.Changes))
    IN /\ Len(cg.Changes) >= scope.NumChanges
       /\ [i \in 1..Len(undone) |-> undone[i].change] = Reverse(appended)
       /\ \A i \in 1..Len(undone) : undone[i].met /\ undone[i].err = NoErr

\* C20: when a scope is closed, the inverses of the changes appended since
\* it opened are applied in the reverse of the order of appending, and each
\* finds its precondition: none removes an absent constraint, decrements a
\* zero count, clears an unset flag, re-adds a listed constraint, or removes
\* a node that is missing or that another node's adjacency or equivalence
\* class still refers to.
C20_InversesInReverseOrder ==
    (cg.err = NoErr /\ cg.ActiveScope # NoScope)
        => UndoneInReverse(scopes[cg.ActiveScope])

\* The active scope has taken records of four kinds, the creation of a node
\* among them, and its destructor undoes them last first.
C20_Witness ==
    /\ cg.err = NoErr
    /\ cg.ActiveScope # NoScope
    /\ LET scope == scopes[cg.ActiveScope]
           kinds == {cg.Changes[i].Kind :
                       i \in (scope.NumChanges + 1)..Len(cg.Changes)}
       IN /\ "AddedTypeVariable" \in kinds
          /\ Cardinality(kinds) >= 4
          /\ UndoneInReverse(scope)


\* C21: with one scope nested in another, the destructor of the outer scope,
\* run while the inner scope is still open, fails an assertion.
C21_OutOfOrderCloseAborts ==
    (/\ cg.err = NoErr
     /\ cg.ActiveScope # NoScope
     /\ scopes[cg.ActiveScope].ParentScope # NoScope)
        => Scope_destroy(cs, cg, scopes[scopes[cg.ActiveScope].ParentScope]).err
              # NoErr


\* No node of g lists constraint c twice and no adjacency count is negative.
NothingDoubled(g, c) ==
    \A n \in DOMAIN g.Nodes :
        /\ Count(g.Nodes[n].Constraints, c) <= 1
        /\ \A t \in DOMAIN g.Nodes[n].AdjacencyInfo :
              g.Nodes[n].AdjacencyInfo[t].NumConstraints >= 0

\* addConstraint of a constraint in the graph fails Node::addConstraint's
\* assertion.
ReAddAborts(c) ==
    LET g2 == addConstraint(cs, cg, c)
    IN g2.err = "Constraint re-insertion" /\ NothingDoubled(g2, c)

\* removeConstraint of a constraint not in the graph fails
\* Node::removeConstraint's assertion.
RemoveAbsentAborts(c) ==
    LET g2 == removeConstraint(cs, cg, c)
    IN /\ g2.err = "removeConstraint: pos != ConstraintIndex.end()"
       /\ NothingDoubled(g2, c)

\* C22: addConstraint of a constraint that is in the graph and
\* removeConstraint of one that is not each fail an assertion; neither
\* returns, lists the constraint twice in a node or leaves a negative count.
C22_MisuseAborts ==
    cg.err = NoErr =>
        /\ \A c \in cs.constraints : ReAddAborts(c)
        /\ \A c \in Constraints \ cs.constraints : RemoveAbsentAborts(c)

\* One constraint in the graph is added again; one that is not in the graph
\* is removed from a node that lists another constraint, and one from a type
\* variable that has no node yet.
C22_Witness ==
    /\ cg.err = NoErr
    /\ \E c \in cs.constraints :
          Cardinality(Mentions[c]) >= 2 /\ ReAddAborts(c)
    /\ \E c \in Constraints \ cs.constraints :
          /\ gatherReferencedTypeVars(c)[1] \in DOMAIN cg.Nodes
          /\ cg.Nodes[gatherReferencedTypeVars(c)[1]].Constraints # <<>>
          /\ RemoveAbsentAborts(c)
    /\ \E c \in Constraints \ cs.constraints :
          /\ gatherReferencedTypeVars(c)[1] \notin DOMAIN cg.Nodes
          /\ RemoveAbsentAborts(c)


\* The type variables the constraint system has in one class with typeVar.
OracleClass(typeVar) == {t \in TypeVars : cs.rep[t] = cs.rep[typeVar]}

\* The constraints the nodes of a set of type variables list.
ListedBy(nodes, typeVars) ==
    UNION {Range(nodes[t].Constraints) : t \in typeVars \cap DOMAIN nodes}

\* C23: the constraints gatherConstraints produces for a type variable are,
\* as a set, the constraints listed by the members of the class of its
\* representative, before the call and after it; each of them mentions a
\* member of the class; and any two type variables of one class get the
\* same set.
C23_GatherIsClassUnion ==
    /\ last.op = "gatherConstraints" =>
          /\ cg.err = NoErr
          /\ Range(last.constraints)
                = ListedBy(last.savedNodes, OracleClass(last.typeVar))
          /\ Range(last.constraints)
                = ListedBy(cg.Nodes, OracleClass(last.typeVar))
          /\ \A c \in Range(last.constraints) :
                Mentions[c] \cap OracleClass(last.typeVar) # {}
    /\ cg.err = NoErr =>
          \A u, v \in TypeVars :
              cs.rep[u] = cs.rep[v] =>
                  Range(gatherConstraints(cs, cg, u).constraints)
                    = Range(gatherConstraints(cs, cg, v).constraints)

\* The constraints of a class of two members, each member listing one the
\* other does not, have been gathered for the member that is not the
\* representative.
C23_Witness ==
    /\ last.op = "gatherConstraints"
    /\ cg.err = NoErr
    /\ ~IsRep(cs, last.typeVar)
    /\ LET a == last.typeVar
           b == cs.rep[last.typeVar]
       IN /\ Known(cg, a) /\ Known(cg, b)
          /\ Range(cg.Nodes[a].Constraints) \ Range(cg.Nodes[b].Constraints) # {}
          /\ Range(cg.Nodes[b].Constraints) \ Range(cg.Nodes[a].Constraints) # {}


\* The graph in which node n's adjacency entry for t has count k: the entry
\* is appended when n has none, and the vector and the map stay in step.
WithCount(g, n, t, k) ==
    IF t \in DOMAIN g.Nodes[n].AdjacencyInfo
    THEN [g EXCEPT !.Nodes[n].AdjacencyInfo[t].NumConstraints = k]
    ELSE [g EXCEPT
            !.Nodes[n].AdjacencyInfo =
                @ @@ (t :> [NewAdjacency(Len(g.Nodes[n].Adjacencies))
                              EXCEPT !.NumConstraints = k]),
            !.Nodes[n].Adjacencies = Append(@, t)]

\* The number of node n's constraints that reference t as well.
JointlyReferencing(g, n, t) ==
    Cardinality({i \in 1..Len(g.Nodes[n].Constraints) :
        t \in Range(gatherReferencedTypeVars(g.Nodes[n].Constraints[i]))})

\* C24: the verifier aborts on every graph in which a node's adjacency entry
\* has a count other than the number of the node's constraints that reference
\* the neighbour as well, an entry with a positive count and no flag for a
\* neighbour that shares no constraint with the node among them.
C24_VerifierCatchesWrongCounts ==
    cg.err = NoErr =>
        \A n \in DOMAIN cg.Nodes : \A t \in TypeVars \ {n} : \A k \in 1..3 :
            k # JointlyReferencing(cg, n, t) =>
                verify(cs, WithCount(cg, n, t, k)).complaint # NoErr


\* C25: the verifier returns on every state the operations reach: none of
\* its requirements fails, and its lookups create no node.
C25_VerifierPasses ==
    cg.err = NoErr =>
        LET r == verify(cs, cg)
        IN /\ r.complaint = NoErr
           /\ r.g.err = NoErr
           /\ DOMAIN r.g.Nodes = DOMAIN cg.Nodes

\* A graph with a class of two, a fixed binding and a live constraint, all
\* of them made in the scope that is active, is verified.
C25_Witness ==
    /\ cg.err = NoErr
    /\ verify(cs, cg).complaint = NoErr
    /\ cs.constraints # {}
    /\ \E n \in DOMAIN cg.Nodes : ~IsRep(cs, n)
    /\ \E n \in DOMAIN cg.Nodes : \E t \in DOMAIN cg.Nodes[n].AdjacencyInfo :
          cg.Nodes[n].AdjacencyInfo[t].FixedBinding
    /\ cg.ActiveScope # NoScope
    /\ scopes[cg.ActiveScope].savedNodes = <<>>


\* Every inverse the destructor's loop applies leaves the change log as it
\* found it: nothing is appended while a change is undone.
RECURSIVE UndoLeavesLog(_, _, _)
UndoLeavesLog(c, g, NumChanges) ==
    IF Len(g.Changes) <= NumChanges THEN TRUE
    ELSE LET g1 == Change_undo(c, g, g.Changes[Len(g.Changes)])
         IN /\ g1.err = NoErr
            /\ g1.Changes = g.Changes
            /\ g1.ActiveScope = g.ActiveScope
            /\ UndoLeavesLog(c, [g1 EXCEPT !.Changes = PopBack(@)], NumChanges)

\* C26: change records exist only while a scope is open: with no scope
\* active the change log is empty, so that a mutation without a scope
\* appends nothing; no record is appended while a change is undone; and
\* when a scope closes the log is as long as the scope's watermark and the
\* scope's parent is active.
C26_RecordsOnlyInScopes ==
    cg.err = NoErr =>
        /\ cg.ActiveScope = NoScope => cg.Changes = <<>>
        /\ cg.ActiveScope # NoScope =>
              LET scope == scopes[cg.ActiveScope]
                  g2 == Scope_destroy(cs, cg, scope)
              IN /\ UndoLeavesLog(cs, cg, scope.NumChanges)
                 /\ g2.err = NoErr
                 /\ Len(g2.Changes) = scope.NumChanges
                 /\ g2.ActiveScope = scope.ParentScope

\* A scope that opened on a graph with nodes has taken several records and
\* is closed: the log shrinks to the watermark.
C26_Witness ==
    /\ cg.err = NoErr
    /\ cg.ActiveScope # NoScope
    /\ scopes[cg.ActiveScope].savedNodes # <<>>
    /\ scopes[cg.ActiveScope].NumChanges = 0
    /\ Len(cg.Changes) >= 2
    /\ Scope_destroy(cs, cg, scopes[cg.ActiveScope]).Changes = <<>>
    /\ Scope_destroy(cs, cg, scopes[cg.ActiveScope]).ActiveScope = NoScope


\* mergeNodes for two classes the constraint system has just united, rep
\* being the representative it chose: the representative's class keeps its
\* members in their places, the other node's stored class is as it was, a
\* scope's records of the extension carry the class length of before, and
\* undoing the records of the merge gives both classes back. A class is read
\* as its accessor returns it, seeded with the node's own type variable.
MergeOnlyAppends(typeVar1, typeVar2, rep) ==
    LET nonRep == IF rep = typeVar1 THEN typeVar2 ELSE typeVar1
        m == Merged(typeVar1, typeVar2, rep)
        before == ClassOf(cg, rep)
        log == Appended(cg, m.g)
        undone == Scope_popChanges(m.cs, m.g, Len(cg.Changes))
    IN /\ m.g.err = NoErr
       /\ Len(ClassOf(m.g, rep)) > Len(before)
       /\ SubSeq(ClassOf(m.g, rep), 1, Len(before)) = before
       /\ ClassOf(m.g, nonRep) = ClassOf(cg, nonRep)
       /\ cg.ActiveScope = NoScope => log = <<>>
       /\ cg.ActiveScope # NoScope =>
             /\ \E i \in 1..Len(log) : log[i].Kind = "ExtendedEquivalenceClass"
             /\ \A i \in 1..Len(log) :
                   log[i].Kind = "ExtendedEquivalenceClass" =>
                       log[i] = extendedEquivalenceClass(rep, Len(before))
             /\ undone.err = NoErr
             /\ ClassOf(undone, rep) = before
             /\ ClassOf(undone, nonRep) = ClassOf(cg, nonRep)
             /\ DOMAIN undone.Nodes = DOMAIN cg.Nodes

\* C27: mergeNodes only appends to the representative's equivalence class:
\* the members of before keep their positions, the other node's own class is
\* unchanged and the recorded previous size is the class length before the
\* append; rolling the merge back leaves the representative's class and the
\* former non-representative's class as they were before the merge.
C27_MergeOnlyAppends ==
    cg.err = NoErr =>
        \A typeVar1, typeVar2 \in TypeVars :
            (/\ typeVar1 # typeVar2
             /\ IsRep(cs, typeVar1) /\ IsRep(cs, typeVar2)
             /\ Unbound(cs, typeVar1) /\ Unbound(cs, typeVar2))
            => \A rep \in {typeVar1, typeVar2} :
                  MergeOnlyAppends(typeVar1, typeVar2, rep)

\* In an active scope a class of two is merged with a third type variable
\* that has a node, and the merge is rolled back.
C27_Witness ==
    /\ cg.err = NoErr
    /\ cg.ActiveScope # NoScope
    /\ \E rep, nonRep \in DOMAIN cg.Nodes :
          /\ rep # nonRep
          /\ IsRep(cs, rep) /\ IsRep(cs, nonRep)
          /\ Unbound(cs, rep) /\ Unbound(cs, nonRep)
          /\ Len(ClassOf(cg, rep)) = 2
          /\ MergeOnlyAppends(rep, nonRep, rep)


\* How often a type variable occurs in a constraint's operand types, base
\* type and nested constraints.
RECURSIVE Occurrences(_, _)
Occurrences(c, t) ==
    Count(c.First, t) + Count(c.Second, t) + Count(c.Base, t)
    + (IF c.Nested = <<>> THEN 0
       ELSE Occurrences(c.Nested[1], t)
            + Occurrences([c EXCEPT !.First = <<>>, !.Second = <<>>,
                                    !.Base = <<>>, !.Nested = Tail(@)], t))

\* One more when both type variables are among a set, none otherwise.
OneIfBoth(u, v, typeVars) == IF {u, v} \subseteq typeVars THEN 1 ELSE 0

\* addConstraint of a constraint that is not in the graph lists it once in
\* the node of each type variable it mentions and raises the count between
\* each two of them by one and no other count; removeConstraint then lowers
\* the same counts by one.
AddsOnePerPair(c) ==
    LET g2 == addConstraint(cs, cg, c)
        g3 == removeConstraint(cs, g2, c)
    IN /\ g2.err = NoErr /\ g3.err = NoErr
       /\ \A t \in TypeVars :
             /\ t \in Mentions[c] =>
                   Known(g2, t) /\ Count(g2.Nodes[t].Constraints, c) = 1
             /\ (t \notin Mentions[c] /\ Known(g2, t)) =>
                   Count(g2.Nodes[t].Constraints, c) = 0
       /\ \A u, v \in TypeVars :
             u # v =>
               /\ EntryIn(g2, u, v)[1]
                     = EntryIn(cg, u, v)[1] + OneIfBoth(u, v, Mentions[c])
               /\ EntryIn(g3, u, v)[1]
                     = EntryIn(g2, u, v)[1] - OneIfBoth(u, v, Mentions[c])

\* removeConstraint of a constraint in the graph lowers the count between
\* each two type variables it mentions by one and no other count.
RemovesOnePerPair(c) ==
    LET g2 == removeConstraint(cs, cg, c)
    IN /\ g2.err = NoErr
       /\ \A u, v \in TypeVars :
             u # v => EntryIn(g2, u, v)[1]
                        = EntryIn(cg, u, v)[1] - OneIfBoth(u, v, Mentions[c])

\* C28: a constraint that mentions a type variable more than once is listed
\* once in that type variable's node; addConstraint raises the adjacency
\* count between each two distinct type variables of the constraint by
\* exactly one and removeConstraint lowers each by exactly one; a constraint
\* on a single type variable changes no adjacency.
C28_OncePerConstraint ==
    cg.err = NoErr =>
        /\ \A c \in Constraints \ cs.constraints : AddsOnePerPair(c)
        /\ \A c \in cs.constraints : RemovesOnePerPair(c)

\* A constraint that mentions one type variable three times, in both
\* operand types and in an overload base type of another branch, is added
\* to a graph in which two of its type variables share a constraint already,
\* and a constraint on a single type variable is added.
C28_Witness ==
    /\ cg.err = NoErr
    /\ \E c \in Constraints \ cs.constraints : \E t, u \in Mentions[c] :
          /\ Occurrences(ConstraintDef[c], t) >= 3
          /\ t # u
          /\ EntryIn(cg, t, u)[1] = 1
          /\ EntryIn(addConstraint(cs, cg, c), t, u)[1] = 2
          /\ AddsOnePerPair(c)
    /\ \E c \in Constraints \ cs.constraints :
          /\ Cardinality(Mentions[c]) = 1
          /\ AddsOnePerPair(c)


\* The destructor's loop, step by step: each change it undoes with the
\* type-variable vector before and after the inverse, and for the removal of
\* a node the slot the node's Index names.
RECURSIVE Scope_vectors(_, _, _)
Scope_vectors(c, g, NumChanges) ==
    IF g.err # NoErr \/ Len(g.Changes) <= NumChanges THEN <<>>
    ELSE Let(g.Changes[Len(g.Changes)], LAMBDA change :
         Let(Change_undo(c, g, change), LAMBDA g1 :
           << [change |-> change,
               slot |-> IF change.Kind = "AddedTypeVariable"
                           /\ Known(g, change.TypeVar)
                        THEN g.Nodes[change.TypeVar].Index ELSE -1,
               before |-> g.TypeVariables,
               after |-> g1.TypeVariables,
               err |-> g1.err] >>
           \o Scope_vectors(c,
                            IF g1.err # NoErr THEN g1
                            ELSE [g1 EXCEPT !.Changes = PopBack(@)],
                            NumChanges)))

\* Every removal of a node by the destructor takes the last slot of the
\* vector, no other inverse touches the vector, and the vector is left as it
\* was when the scope opened.
RemovesLastSlot(scope) ==
    LET undone == Scope_vectors(cs, cg, scope.NumChanges)
    IN /\ \A i \in 1..Len(undone) :
             /\ undone[i].err = NoErr
             /\ IF undone[i].change.Kind = "AddedTypeVariable"
                THEN /\ undone[i].before # <<>>
                     /\ undone[i].slot = Len(undone[i].before) - 1
                     /\ At0(undone[i].before, undone[i].slot)
                           = undone[i].change.TypeVar
                     /\ undone[i].after = PopBack(undone[i].before)
                ELSE undone[i].after = undone[i].before
       /\ Scope_destroy(cs, cg, scope).TypeVariables = scope.savedTypeVariables

\* C29: when the active scope is closed, every node removed in undoing an
\* AddedTypeVariable record occupies the last slot of the type-variable
\* vector, no type variable that stays changes its slot, and the vector
\* after the close is the vector at the opening of the scope.
C29_RollbackPopsLastSlot ==
    (cg.err = NoErr /\ cg.ActiveScope # NoScope)
        => RemovesLastSlot(scopes[cg.ActiveScope])

\* The active scope opened on a vector that had a type variable and has
\* created two nodes since; its destructor removes both from the last slot.
C29_Witness ==
    /\ cg.err = NoErr
    /\ cg.ActiveScope # NoScope
    /\ LET scope == scopes[cg.ActiveScope]
       IN /\ scope.savedTypeVariables # <<>>
          /\ Cardinality({i \in (scope.NumChanges + 1)..Len(cg.Changes) :
                            cg.Changes[i].Kind = "AddedTypeVariable"}) >= 2
          /\ RemovesLastSlot(scope)


\* The second graph has the nodes of the first, each with the constraint
\* list, adjacencies, slot and equivalence class (as the accessor returns
\* it) it had, and the same type-variable vector, log of changes and scope.
SameGraph(g, g2) ==
    /\ DOMAIN g2.Nodes = DOMAIN g.Nodes
    /\ g2.TypeVariables = g.TypeVariables
    /\ g2.Changes = g.Changes
    /\ g2.ActiveScope = g.ActiveScope
    /\ \A n \in DOMAIN g.Nodes :
          /\ g2.Nodes[n].Constraints = g.Nodes[n].Constraints
          /\ g2.Nodes[n].ConstraintIndex = g.Nodes[n].ConstraintIndex
          /\ g2.Nodes[n].Adjacencies = g.Nodes[n].Adjacencies
          /\ g2.Nodes[n].AdjacencyInfo = g.Nodes[n].AdjacencyInfo
          /\ g2.Nodes[n].Index = g.Nodes[n].Index
          /\ ClassOf(g2, n) = ClassOf(g, n)

\* A step of computeConnectedComponents completes without an access out of
\* range, has given every slot of the vector it sized at its start a
\* component, and leaves the graph as it was.
QueryStepIsPure ==
    last'.op = "computeConnectedComponents" =>
        /\ cg'.err = NoErr
        /\ SameGraph(cg, cg')
        /\ cs' = cs
        /\ Len(last'.traversal) = Len(cg.TypeVariables)
        /\ \A i \in 1..Len(last'.traversal) :
              last'.traversal[i] < Len(cg.TypeVariables)

\* C30: in every state of the graph computeConnectedComponents creates no
\* node, changes no constraint list, adjacency or equivalence class,
\* appends no record to the log of changes, in a scope or out of one, and
\* indexes the component vector within the length it gave it.
C30_QueryIsPure == [][QueryStepIsPure]_vars

\* The query has run in an active scope that has taken records, over a
\* graph in which its traversal went from a node to an adjacent one and to
\* a member of its equivalence class through lookupNode.
C30_Witness ==
    /\ last.op = "computeConnectedComponents"
    /\ cg.err = NoErr
    /\ cg.ActiveScope # NoScope
    /\ Len(cg.Changes) > scopes[cg.ActiveScope].NumChanges
    /\ \E n \in DOMAIN cg.Nodes : cg.Nodes[n].Adjacencies # <<>>
    /\ \E n \in DOMAIN cg.Nodes : Len(cg.Nodes[n].EquivalenceClass) > 1
    /\ Len(last.traversal) >= 3
    /\ \A i \in 1..Len(last.traversal) : last.traversal[i] = 0


\* The graph after the destructor of the active scope.
RolledBack == Scope_destroy(cs, cg, scopes[cg.ActiveScope])

\* Every node the graph had when the scope opened has its constraint
\* sequence and its neighbour sequence element for element.
SequencesInOrder(g, scope) ==
    \A n \in DOMAIN scope.savedNodes :
        /\ Known(g, n)
        /\ g.Nodes[n].Constraints = scope.savedNodes[n].Constraints
        /\ g.Nodes[n].Adjacencies = scope.savedNodes[n].Adjacencies

\* Every node the graph had when the scope opened has the constraints and
\* the neighbours it had, each once, in some order.
SequencesPermuted(g, scope) ==
    \A n \in DOMAIN scope.savedNodes :
        /\ Known(g, n)
        /\ Range(g.Nodes[n].Constraints) = Range(scope.savedNodes[n].Constraints)
        /\ Len(g.Nodes[n].Constraints) = Len(scope.savedNodes[n].Constraints)
        /\ Range(g.Nodes[n].Adjacencies) = Range(scope.savedNodes[n].Adjacencies)
        /\ Len(g.Nodes[n].Adjacencies) = Len(scope.savedNodes[n].Adjacencies)

\* The scope has removed a constraint that was in the graph when it opened.
RemovedAnOldConstraint(g, scope) ==
    \E i \in (scope.NumChanges + 1)..Len(g.Changes) :
        /\ g.Changes[i].Kind = "RemovedConstraint"
        /\ \E n \in DOMAIN scope.savedNodes :
              g.Changes[i].TheConstraint \in Range(scope.savedNodes[n].Constraints)

\* C31: closing the active scope leaves every element of every node's
\* constraint sequence and neighbour sequence at the position it had when
\* the scope opened.
C31_RollbackRestoresOrder ==
    (cg.err = NoErr /\ cg.ActiveScope # NoScope)
        => /\ RolledBack.err = NoErr
           /\ SequencesInOrder(RolledBack, scopes[cg.ActiveScope])

\* C31, amended: closing the active scope leaves every node with the
\* constraints and the neighbours it had when the scope opened; each is at
\* its old position when the scope removed no constraint that was in the
\* graph at its opening.
C31_RollbackRestoresContents ==
    (cg.err = NoErr /\ cg.ActiveScope # NoScope)
        => /\ RolledBack.err = NoErr
           /\ SequencesPermuted(RolledBack, scopes[cg.ActiveScope])
           /\ ~RemovedAnOldConstraint(cg, scopes[cg.ActiveScope])
                 => SequencesInOrder(RolledBack, scopes[cg.ActiveScope])

\* The active scope has removed a constraint from the middle of a node's
\* constraint sequence and a neighbour from the middle of its neighbour
\* sequence; its destructor puts both back at the end.
C31_Witness ==
    /\ cg.err = NoErr
    /\ cg.ActiveScope # NoScope
    /\ RemovedAnOldConstraint(cg, scopes[cg.ActiveScope])
    /\ RolledBack.err = NoErr
    /\ SequencesPermuted(RolledBack, scopes[cg.ActiveScope])
    /\ \E n \in DOMAIN scopes[cg.ActiveScope].savedNodes :
          RolledBack.Nodes[n].Constraints
              # scopes[cg.ActiveScope].savedNodes[n].Constraints
    /\ \E n \in DOMAIN scopes[cg.ActiveScope].savedNodes :
          RolledBack.Nodes[n].Adjacencies
              # scopes[cg.ActiveScope].savedNodes[n].Adjacencies


\* The constraint sequences of the nodes of a sequence of type variables,
\* one after the other.
RECURSIVE ListsInOrder(_, _)
ListsInOrder(g, typeVars) ==
    IF typeVars = <<>> THEN <<>>
    ELSE g.Nodes[Head(typeVars)].Constraints \o ListsInOrder(g, Tail(typeVars))

\* The vectors a caller may pass to gatherConstraints.
Outputs == { <<>>, <<4>>, <<1, 1>> }

\* gatherConstraints for a type variable leaves what the caller's vector
\* held and appends the constraint sequences of the members of the
\* representative's class in class order, so that each constraint of the
\* graph is appended once for every entry of the class it mentions.
GathersInClassOrder(typeVar, constraints) ==
    LET r == gatherConstraints_into(cs, cg, typeVar, constraints)
        class == ClassOf(r.g, cs.rep[typeVar])
        appended == SubSeq(r.constraints, Len(constraints) + 1, Len(r.constraints))
    IN /\ r.g.err = NoErr
       /\ Len(r.constraints) >= Len(constraints)
       /\ SubSeq(r.constraints, 1, Len(constraints)) = constraints
       /\ \A i \in 1..Len(class) : Known(r.g, class[i])
       /\ appended = ListsInOrder(r.g, class)
       /\ \A c \in Constraints :
             Count(appended, c)
               = IF c \in cs.constraints
                 THEN Cardinality({i \in 1..Len(class) : class[i] \in Mentions[c]})
                 ELSE 0

\* C32: gatherConstraints appends to the caller's vector, without clearing
\* it, the constraints of each member of the representative's equivalence
\* class in class order and node order, without removing repetitions: a
\* constraint that mentions k entries of the class is appended k times.
C32_GatherAppendsPerMember ==
    cg.err = NoErr =>
        \A typeVar \in TypeVars : \A constraints \in Outputs :
            GathersInClassOrder(typeVar, constraints)

\* A class lists a member twice and a constraint of the graph mentions that
\* member and the representative: gathering for the member appends the
\* constraint three times after the two constraints the vector held.
C32_Witness ==
    /\ cg.err = NoErr
    /\ \E typeVar \in TypeVars : \E c \in cs.constraints :
          LET r == gatherConstraints_into(cs, cg, typeVar, <<1, 1>>)
              class == ClassOf(cg, cs.rep[typeVar])
          IN /\ ~IsRep(cs, typeVar)
             /\ Count(class, typeVar) = 2
             /\ {typeVar, cs.rep[typeVar]} \subseteq Mentions[c]
             /\ Len(r.constraints) >= 5
             /\ Count(SubSeq(r.constraints, 3, Len(r.constraints)), c) = 3
             /\ GathersInClassOrder(typeVar, <<1, 1>>)


\* The type variables the traversal goes to from a node: its adjacencies,
\* then the rest of its equivalence class when it is a representative and
\* its representative when it is not.
Follows(n) ==
    Range(cg.Nodes[n].Adjacencies)
      \cup (IF IsRep(cs, n) THEN Range(Tail(ClassOf(cg, n))) ELSE {cs.rep[n]})

\* Every type variable the traversal goes to from a node has a node from
\* which the traversal goes back.
LinksSymmetric ==
    \A n \in DOMAIN cg.Nodes : \A m \in Follows(n) :
        /\ m # n
        /\ Known(cg, m)
        /\ n \in Follows(m)

\* The first loop of computeConnectedComponents has completed without a
\* failed assertion and every type variable with a node has one slot, which
\* holds a component and not the mark of a slot not yet reached.
EverySlotAssigned ==
    /\ cg.err = NoErr
    /\ Len(last.traversal) = Len(cg.TypeVariables)
    /\ \A v \in DOMAIN cg.Nodes :
          /\ Cardinality({i \in 1..Len(cg.TypeVariables) :
                             cg.TypeVariables[i] = v}) = 1
          /\ last.traversal[Slot(v)] < Len(cg.TypeVariables)
          /\ \A m \in Follows(v) :
                last.traversal[Slot(m)] = last.traversal[Slot(v)]

\* C33: in every state of the graph the traversal of
\* computeConnectedComponents goes both ways between two type variables or
\* neither; it completes with every type variable that has a node in one
\* component and never fails "Already in a component?".
C33_TraversalAssignsEachOnce ==
    /\ cg.err = NoErr => LinksSymmetric
    /\ last.op = "computeConnectedComponents" => EverySlotAssigned

\* The traversal has put three type variables in two components, going from
\* a type variable to its representative, whose slot comes later, and
\* between two adjacent ones.
C33_Witness ==
    /\ last.op = "computeConnectedComponents"
    /\ EverySlotAssigned
    /\ Len(last.traversal) = 3
    /\ Cardinality(Range(last.traversal)) = 2
    /\ \E n \in DOMAIN cg.Nodes :
          ~IsRep(cs, n) /\ Slot(n) < Slot(cs.rep[n])
    /\ \E n \in DOMAIN cg.Nodes : cg.Nodes[n].Adjacencies # <<>>

=============================================================================
